---- MODULE Spec2Model ----
(***************************************************************************)
(* Ingestion-and-retrieval pipeline of the AI workflow manager.            *)
(*                                                                         *)
(* The module holds several specifications over one set of variables:      *)
(*   SpecChunk     the chunker of generate_embeddings.js                   *)
(*   SpecCrawl     the crawl loop of rag_crawler.js                        *)
(*   SpecValidate  the input validation of validate_input.js               *)
(*   Spec          the Step Functions state machine of the RAG pipeline    *)
(*   SpecEmbed     generate_embeddings.js behind GenerateEmbeddings        *)
(*   SpecStore     store_embeddings.js behind StoreEmbeddings              *)
(*   SpecDoc       process_document.js in an execution over one document   *)
(*   SpecChat      the calls of chatbot_query.js, any collaborator failing *)
(*   SpecSession   the calls on one tenant's sessions over time            *)
(*   SpecIterator  the iterator of the Map state on items of any type      *)
(*   SpecText      the text clean-up of extract_text.js                    *)
(*   SpecWriters   two invocations of store_embeddings.js, one tenant      *)
(*   SpecTurnsSeq  calls of chatbot_query.js on one session, one at a time *)
(*   SpecTurns     the same calls, overlapping in time                     *)
(*   SpecExecute   an execute request to workflow_api.js                   *)
(* Each specification moves its own variables and leaves the others idle.  *)
(***************************************************************************)
EXTENDS Integers, Sequences, FiniteSets, TLC

VARIABLES
  \* ---- chunker (generate_embeddings.js) ----
  text,           \* the text handed to splitTextIntoChunks
  maxChunkSize,   \* its maxChunkSize argument
  chunks,         \* the array it returned
  chunkPc         \* "idle" | "input" | "done"

chunkVars == <<text, maxChunkSize, chunks, chunkPc>>

VARIABLES
  \* ---- crawler (rag_crawler.js) ----
  crawlEvent,      \* [url, crawlDepth]: dataSource.url and config.crawlDepth
  baseUrl,         \* the normalized start URL
  domain,          \* its hostname
  visitedUrls,     \* Set of URLs already handed to crawlUrl
  urlsToCrawl,     \* array of the URLs of the current depth level
  newUrlsToCrawl,  \* array of the links collected for the next level
  crawledPages,    \* the URLs of the pages kept (those with content); the array's
                   \* order, the order in which the fetches return, is not kept
  depth,           \* loop variable of the depth loop
  batchIndex,      \* loop variable i of the batch loop
  inFlight,        \* URLs whose crawlUrl call has not returned yet
  fetched,         \* history: the URLs requested, in request order
  reach,           \* history: URL -> least number of link hops from the start seen
  crawlPc,         \* "idle" | "start" | "launch" | "await" | "store" | "done" | "failed"
  crawlResult      \* what the handler returned or threw

crawlVars == <<crawlEvent, baseUrl, domain, visitedUrls, urlsToCrawl, newUrlsToCrawl,
               crawledPages, depth, batchIndex, inFlight, fetched, reach, crawlPc,
               crawlResult>>

VARIABLES
  \* ---- pipeline orchestrator (state machine definition, validate_input.js,
  \*      error_handler.js) ----
  event,         \* the execution input: tenantId, dataSources, config
  validation,    \* $.validation, the result of ValidateInput
  pc,            \* the current top-level state of the state machine
  runStatus,     \* status of the execution: "NOT_STARTED" | "RUNNING" | "SUCCEEDED" | "FAILED"
  retries,       \* retries made so far of the current top-level Task
  branch,        \* the Map iterations: index -> [state, retries, status, failedAt, ended]
  executed,      \* history: the <<iteration, Task>> pairs invoked (iteration 0: top level)
  errorRecords   \* the error items put by the error handler

orchVars == <<event, validation, pc, runStatus, retries, branch, executed, errorRecords>>

VARIABLES
  \* ---- one invocation after another of generate_embeddings.js ----
  genPc,           \* "idle" | "read" | "embed" | "store" | "catch" | "returned" | "thrown"
  genEnv,          \* process.env.NODE_ENV
  genChunkCount,   \* textChunks.length
  genIndex,        \* loop variable i
  genEmbeddings,   \* embeddings.length
  genArtifacts,    \* history: the embeddings objects put to S3
  genInvocations,  \* history: the invocations started
  genCallFailed,   \* history: an embedding call failed outside development
  genFallbacks,    \* history: the random vectors substituted
  genError         \* the name of the error thrown

genVars == <<genPc, genEnv, genChunkCount, genIndex, genEmbeddings, genArtifacts,
             genInvocations, genCallFailed, genFallbacks, genError>>

VARIABLES
  \* ---- one invocation after another of store_embeddings.js ----
  stPc,           \* "idle" | "read" | "check" | "create" | "bulk" | "meta" | "catch"
                  \* | "returned" | "thrown"
  stCount,        \* embeddingsData.length
  stBatch,        \* loop variable i of the batch loop
  stResults,      \* results: the errors flag of each bulk response
  stIndexed,      \* history: the documents OpenSearch indexed
  stVectorCount,  \* the vectorCount returned (-1: none)
  stInvocations,  \* history: the invocations started
  stError,        \* the name of the error thrown
  stCalls         \* history: the requests of the invocation, as <<request, answer>>

stVars == <<stPc, stCount, stBatch, stResults, stIndexed, stVectorCount, stInvocations,
            stError, stCalls>>

VARIABLES
  \* ---- one call after another of chatbot_query.js ----
  chatPc,        \* "idle" | "config" | "history" | "embed" | "search" | "generate"
                 \* | "pushUser" | "pushAssistant" | "expire" | "record" | "done"
  chatNow,       \* the time, in minutes
  chatCalls,     \* history: the calls started
  chatReq,       \* the request: tenantId (Cognito claim), chatbotId, sessionId, hasQuery
  chatRedis,     \* the session store: key -> [turns, expireAt] (expireAt -1: no expiry)
  chatRead,      \* conversationHistory.length
  chatHits,      \* the _score values of the hits OpenSearch returned, in hundredths
  chatSources,   \* the scores of the hits kept in relevantContent and sources
  chatResponse,  \* "" | "generated" | "apology"
  chatResult,    \* the statusCode returned and whether the body holds a response
  chatFailed,    \* history: the collaborators that failed during the call
  chatAccess,    \* history: the keys and index names the calls used, with the caller
  chatLast       \* history: key -> the time of the last call that returned 200 (-1: none)

chatVars == <<chatPc, chatNow, chatCalls, chatReq, chatRedis, chatRead, chatHits,
              chatSources, chatResponse, chatResult, chatFailed, chatAccess, chatLast>>

VARIABLES
  \* ---- one invocation after another of process_document.js ----
  docPc,           \* "idle" | "resolve" | "check" | "head" | "extract" | "wait"
                   \* | "poll" | "store" | "catch" | "returned" | "thrown"
  docBucket,       \* documentBucket
  docKey,          \* documentKey
  docMethod,       \* extractionMethod
  docReads,        \* history: the reads of document objects (operation, bucket, key)
  docRaised,       \* the error raised in the try block ("" : none)
  docError,        \* the error the handler threw ("" : none)
  docInvocations   \* history: the invocations started

docVars == <<docPc, docBucket, docKey, docMethod, docReads, docRaised, docError,
             docInvocations>>

VARIABLES
  \* ---- the text clean-up of extract_text.js ----
  cleanPc,       \* "idle" | "start" | "done"
  rawText,       \* the argument of cleanText
  cleanedText    \* what cleanText returned

textVars == <<cleanPc, rawText, cleanedText>>

VARIABLES
  \* ---- two invocations of store_embeddings.js writing to one tenant index ----
  wrPc,          \* per invocation: "check" | "create" | "build" | "send" | "done"
                 \* | "failed"
  wrNow,         \* Date.now(), in milliseconds
  wrCount,       \* per invocation: embeddings.length
  wrIds,         \* per invocation: the docIds built so far, in order
  wrIndex,       \* the tenant index: _id -> <<invocation, chunk>>
  wrWritten,     \* history: the records sent, as <<_id, invocation, chunk>>
  wrExists,      \* the tenant index exists
  wrCreates,     \* history: the create-index requests issued
  wrError        \* per invocation: the error thrown ("" : none)

writerVars == <<wrPc, wrNow, wrCount, wrIds, wrIndex, wrWritten, wrExists, wrCreates,
                wrError>>

VARIABLES
  \* ---- the calls of chatbot_query.js on one session, turn by turn ----
  tnPc,          \* per call: "idle" | "prompt" | "pushUser" | "pushAssistant"
                 \* | "expire" | "record" | "done" | "failed"
  tnCall,        \* per call: the query of the request and the response generated
  tnRecords,     \* the items put to QUERIES_TABLE
  tnList,        \* the list at conversationHistoryKey, its head first
  tnBase,        \* history: the turns the session held at the start
  tnHistory,     \* per call: conversationHistory
  tnPrompt,      \* per call: the lines of "Previous conversation:" in the prompt
  tnOverlap      \* history: a call started while another was under way

turnVars == <<tnPc, tnCall, tnRecords, tnList, tnBase, tnHistory, tnPrompt, tnOverlap>>

VARIABLES
  \* ---- one execute request to workflow_api.js ----
  exPc,          \* "idle" | "get" | "build" | "start" | "record" | "done" | "thrown"
  exCaller,      \* the tenantId of the authorizer's claims
  exBody,        \* the request body: null, no JSON, or the object it parses to
  exInput,       \* the input of the execution started (no property: none)
  exStatus       \* the statusCode returned (0: none)

execVars == <<exPc, exCaller, exBody, exInput, exStatus>>

lambdaVars ==
  <<genVars, stVars, chatVars, docVars, textVars, writerVars, turnVars, execVars>>

genRest ==
  <<chunkVars, crawlVars, orchVars, stVars, chatVars, docVars, textVars, writerVars, turnVars,
    execVars>>
stRest ==
  <<chunkVars, crawlVars, orchVars, genVars, chatVars, docVars, textVars, writerVars, turnVars,
    execVars>>
chatRest ==
  <<chunkVars, crawlVars, orchVars, genVars, stVars, docVars, textVars, writerVars, turnVars,
    execVars>>
docRest ==
  <<chunkVars, crawlVars, orchVars, genVars, stVars, chatVars, textVars, writerVars, turnVars,
    execVars>>
textRest ==
  <<chunkVars, crawlVars, orchVars, genVars, stVars, chatVars, docVars, writerVars, turnVars,
    execVars>>
turnRest ==
  <<chunkVars, crawlVars, orchVars, genVars, stVars, chatVars, docVars, textVars, writerVars,
    execVars>>
execRest ==
  <<chunkVars, crawlVars, orchVars, genVars, stVars, chatVars, docVars, textVars, writerVars,
    turnVars>>
writerRest ==
  <<chunkVars, crawlVars, orchVars, genVars, stVars, chatVars, docVars, textVars, turnVars,
    execVars>>

vars == <<chunkVars, crawlVars, orchVars, lambdaVars>>

(***************************************************************************)
(* The values a part of the model holds while another part runs.           *)
(***************************************************************************)
ChunkIdle ==
  /\ text = <<>>
  /\ maxChunkSize = 0
  /\ chunks = <<>>
  /\ chunkPc = "idle"

NoValidation == [isValid |-> FALSE, errors |-> {"not validated"}]

NoConfigValue == [kind |-> "undefined", tenths |-> 0]

NoEvent == [tenantId |-> "", tenantLookup |-> "found", hasDataSources |-> FALSE,
            dataSources |-> <<>>, hasConfig |-> FALSE,
            config |-> [crawlDepth |-> NoConfigValue, memoryDuration |-> NoConfigValue,
                        maxDocuments |-> NoConfigValue, embeddingModel |-> "undefined"]]

OrchIdle ==
  /\ event = NoEvent
  /\ validation = NoValidation
  /\ pc = "idle"
  /\ runStatus = "NOT_STARTED"
  /\ retries = 0
  /\ branch = <<>>
  /\ executed = {}
  /\ errorRecords = {}

GenIdle ==
  /\ genPc = "idle"
  /\ genEnv = "production"
  /\ genChunkCount = 0
  /\ genIndex = 0
  /\ genEmbeddings = 0
  /\ genArtifacts = 0
  /\ genInvocations = 0
  /\ genCallFailed = FALSE
  /\ genFallbacks = 0
  /\ genError = ""

StIdle ==
  /\ stPc = "idle"
  /\ stCount = 0
  /\ stBatch = 0
  /\ stResults = <<>>
  /\ stIndexed = 0
  /\ stVectorCount = -1
  /\ stInvocations = 0
  /\ stError = ""
  /\ stCalls = {}

NoRequest == [tenantId |-> <<>>, chatbotId |-> <<>>, sessionId |-> <<>>, hasQuery |-> FALSE]

NoResult == [statusCode |-> 0, hasResponse |-> FALSE]

ChatIdle ==
  /\ chatPc = "idle"
  /\ chatNow = 0
  /\ chatCalls = 0
  /\ chatReq = NoRequest
  /\ chatRedis = <<>>
  /\ chatRead = 0
  /\ chatHits = {}
  /\ chatSources = {}
  /\ chatResponse = ""
  /\ chatResult = NoResult
  /\ chatFailed = {}
  /\ chatAccess = {}
  /\ chatLast = <<>>

\* the value of a property an item does not hold, and of a variable not
\* yet assigned
Undefined == <<"undefined">>

Unresolved == <<"unresolved">>

DocIdle ==
  /\ docPc = "idle"
  /\ docBucket = Unresolved
  /\ docKey = Unresolved
  /\ docMethod = ""
  /\ docReads = {}
  /\ docRaised = ""
  /\ docError = ""
  /\ docInvocations = 0

TextIdle ==
  /\ cleanPc = "idle"
  /\ rawText = <<>>
  /\ cleanedText = <<>>

WriterIdle ==
  /\ wrPc = <<>>
  /\ wrNow = 0
  /\ wrCount = <<>>
  /\ wrIds = <<>>
  /\ wrIndex = <<>>
  /\ wrWritten = {}
  /\ wrExists = FALSE
  /\ wrCreates = 0
  /\ wrError = <<>>

TurnIdle ==
  /\ tnPc = <<>>
  /\ tnCall = <<>>
  /\ tnRecords = {}
  /\ tnList = <<>>
  /\ tnBase = 0
  /\ tnHistory = <<>>
  /\ tnPrompt = <<>>
  /\ tnOverlap = FALSE

ExecIdle ==
  /\ exPc = "idle"
  /\ exCaller = ""
  /\ exBody = [kind |-> "null", props |-> <<>>]
  /\ exInput = <<>>
  /\ exStatus = 0

LambdaIdle ==
  /\ GenIdle /\ StIdle /\ ChatIdle /\ DocIdle /\ TextIdle /\ WriterIdle /\ TurnIdle
  /\ ExecIdle

(***************************************************************************)
(* Strings are sequences of one-character strings.                         *)
(***************************************************************************)
MaxTextLen == 5
MaxChunkBound == 3

NL == "\n"
Alphabet == {"a", " ", ".", "!", NL}
Whitespace == {" ", NL}
SentenceEnd == {".", "!", "?"}

RECURSIVE SeqsUpTo(_, _)
SeqsUpTo(S, n) ==
  IF n = 0 THEN {<<>>}
  ELSE LET shorter == SeqsUpTo(S, n - 1)
       IN  shorter \cup {Append(s, c) : s \in {t \in shorter : Len(t) = n - 1}, c \in S}

\* String.prototype.trim
RECURSIVE TrimLeft(_)
TrimLeft(s) ==
  IF s # <<>> /\ Head(s) \in Whitespace THEN TrimLeft(Tail(s)) ELSE s

RECURSIVE TrimRight(_)
TrimRight(s) ==
  IF s # <<>> /\ s[Len(s)] \in Whitespace
  THEN TrimRight(SubSeq(s, 1, Len(s) - 1)) ELSE s

Trim(s) == TrimRight(TrimLeft(s))

\* String.prototype.split(/[seps]+/): the pieces between maximal runs of
\* separator characters, empty first or last piece included.
RECURSIVE SplitRec(_, _, _, _)
SplitRec(s, seps, cur, prevSep) ==
  IF s = <<>> THEN <<cur>>
  ELSE IF Head(s) \in seps
       THEN IF prevSep THEN SplitRec(Tail(s), seps, cur, TRUE)
            ELSE <<cur>> \o SplitRec(Tail(s), seps, <<>>, TRUE)
       ELSE SplitRec(Tail(s), seps, Append(cur, Head(s)), FALSE)

Split(s, seps) == SplitRec(s, seps, <<>>, FALSE)

\* Array.prototype.filter(p => p.trim().length > 0)
RECURSIVE FilterNonBlank(_)
FilterNonBlank(pieces) ==
  IF pieces = <<>> THEN <<>>
  ELSE IF Len(Trim(Head(pieces))) > 0
       THEN <<Head(pieces)>> \o FilterNonBlank(Tail(pieces))
       ELSE FilterNonBlank(Tail(pieces))

Min(a, b) == IF a <= b THEN a ELSE b

\* the while loop that cuts an over-long sentence at the character limit
RECURSIVE HardSplit(_, _)
HardSplit(remainingSentence, max) ==
  IF Len(remainingSentence) = 0 THEN <<>>
  ELSE LET chunkSize == Min(Len(remainingSentence), max)
       IN  <<SubSeq(remainingSentence, 1, chunkSize)>>
           \o HardSplit(SubSeq(remainingSentence, chunkSize + 1, Len(remainingSentence)), max)

\* one iteration of the loop over the sentences of an over-long paragraph;
\* st = [chunks, currentChunk]
SentenceFits(st, sentence, max) ==
  Len(st.currentChunk) + Len(sentence) + 1 <= max

SentenceStep(st, sentence, max) ==
  IF SentenceFits(st, sentence, max)
  THEN [st EXCEPT !.currentChunk =
          @ \o (IF @ # <<>> THEN <<" ">> ELSE <<>>) \o Trim(sentence) \o <<".">>]
  ELSE LET flushed == IF st.currentChunk # <<>>
                      THEN [chunks |-> Append(st.chunks, st.currentChunk),
                            currentChunk |-> <<>>]
                      ELSE st
       IN  IF Len(sentence) > max
           THEN [flushed EXCEPT !.chunks = @ \o HardSplit(sentence, max)]
           ELSE [flushed EXCEPT !.currentChunk = Trim(sentence) \o <<".">>]

RECURSIVE SentenceLoop(_, _, _)
SentenceLoop(st, sentences, max) ==
  IF sentences = <<>> THEN st
  ELSE SentenceLoop(SentenceStep(st, Head(sentences), max), Tail(sentences), max)

\* one iteration of the loop over the paragraphs
ParagraphStep(st, paragraph, max) ==
  IF Len(paragraph) > max
  THEN SentenceLoop(st, FilterNonBlank(Split(paragraph, SentenceEnd)), max)
  ELSE IF Len(st.currentChunk) + Len(paragraph) + 1 <= max
       THEN [st EXCEPT !.currentChunk =
               @ \o (IF @ # <<>> THEN <<NL>> ELSE <<>>) \o paragraph]
       ELSE [chunks |-> Append(st.chunks, st.currentChunk),
             currentChunk |-> paragraph]

RECURSIVE ParagraphLoop(_, _, _)
ParagraphLoop(st, paragraphs, max) ==
  IF paragraphs = <<>> THEN st
  ELSE ParagraphLoop(ParagraphStep(st, Head(paragraphs), max), Tail(paragraphs), max)

splitTextIntoChunks(t, max) ==
  LET paragraphs == FilterNonBlank(Split(t, {NL}))
      st == ParagraphLoop([chunks |-> <<>>, currentChunk |-> <<>>], paragraphs, max)
  IN  IF st.currentChunk # <<>> THEN Append(st.chunks, st.currentChunk)
      ELSE st.chunks

(***************************************************************************)
(* The crawler.  A URL is [scheme, host, path]; host and path are strings  *)
(* as sequences of characters, so that hostname suffix tests and the       *)
(* trailing-slash normalization are computed as the code computes them.    *)
(***************************************************************************)
CrawlDepthMax == 3
batchSize == 5

NoUrl == [scheme |-> "", host |-> <<>>, path |-> <<>>]

HostE == <<"e", ".", "c">>
HostSub == <<"b", ".", "e", ".", "c">>
HostLookalike == <<"n", "e", ".", "c">>

Url(h, p) == [scheme |-> "https", host |-> h, path |-> p]

\* the links a page may hold: the root of the site in both spellings, SitePages
\* pages below it, two pages of a subdomain, and a page of a host whose name
\* only ends like the site's
PageNames == <<"a", "b", "c", "d", "f", "g">>

SitePages == 3

SiteUrls == <<Url(HostE, <<>>), Url(HostE, <<"/">>)>>
            \o [k \in 1..SitePages |-> Url(HostE, <<"/", PageNames[k]>>)]
            \o <<Url(HostSub, <<"/", "a">>), Url(HostSub, <<"/", "b">>),
                 Url(HostLookalike, <<"/", "a">>)>>

LinkUrls == {SiteUrls[k] : k \in DOMAIN SiteUrls}

StartUrls == {Url(HostE, <<"/">>), Url(HostSub, <<"/", "a">>),
              [scheme |-> "ftp", host |-> HostE, path |-> <<"/">>]}

\* the arrays of links crawlUrl may return: no link, one link, or a link to
\* every page (a site map)
LinkArrays == {<<>>} \cup {<<u>> : u \in LinkUrls} \cup {SiteUrls}

\* String.prototype.endsWith
EndsWith(s, suffix) ==
  /\ Len(suffix) <= Len(s)
  /\ SubSeq(s, Len(s) - Len(suffix) + 1, Len(s)) = suffix

isValidUrl(u) == u.scheme \in {"http", "https"}

\* variant: the suffix test without the separating dot
isSameDomain_NoDot(u, dom) ==
  u.host = dom \/ EndsWith(u.host, dom)

isSameDomain(u, dom) ==
  u.host = dom \/ EndsWith(u.host, <<".">> \o dom)

normalizeUrl(u) ==
  LET pathname == IF u.path = <<>> THEN <<"/">> ELSE u.path
  IN  [u EXCEPT !.path = IF pathname[Len(pathname)] = "/"
                         THEN SubSeq(pathname, 1, Len(pathname) - 1)
                         ELSE pathname]

\* [...new Set(array)]: first occurrences, in order
RECURSIVE Dedup(_)
Dedup(s) ==
  IF s = <<>> THEN <<>>
  ELSE LET front == Dedup(SubSeq(s, 1, Len(s) - 1))
           last == s[Len(s)]
       IN  IF \E k \in DOMAIN front : front[k] = last THEN front
           ELSE Append(front, last)

\* variant: the rest of the level is taken as one batch
Slice_WholeLevel(s, i, n) == SubSeq(s, i + 1, Len(s))

\* Array.prototype.slice(i, i + batchSize), i counted from 0
Slice(s, i, n) == SubSeq(s, i + 1, Min(i + n, Len(s)))

\* variant: the depth read as a number of link levels below the start page
EffectiveDepth_LinkLevels(ev) == IF ev.crawlDepth = 0 THEN 1 ELSE ev.crawlDepth + 1

\* `config.crawlDepth || 1`; an absent crawlDepth is written 0, which is as falsy
EffectiveDepth(ev) == IF ev.crawlDepth = 0 THEN 1 ELSE ev.crawlDepth

DepthLoopContinues(d, crawlDepth) == d < crawlDepth

FollowsLinks(d, crawlDepth) == d < crawlDepth - 1

\* variant: the visited set is never consulted
AlreadyVisited_Never(visited, u) == FALSE

AlreadyVisited(visited, u) == u \in visited

\* the synchronous start of the callbacks of one batch: each URL not yet
\* visited is marked visited and requested; st = [visited, started]
RECURSIVE LaunchLoop(_, _)
LaunchLoop(st, urlBatch) ==
  IF urlBatch = <<>> THEN st
  ELSE LET u == Head(urlBatch)
       IN  IF AlreadyVisited(st.visited, u)
           THEN LaunchLoop(st, Tail(urlBatch))
           ELSE LaunchLoop([visited |-> st.visited \cup {u},
                            started |-> Append(st.started, u)], Tail(urlBatch))

\* links.forEach(link => ...): the links kept for the next level
RECURSIVE KeptLinks(_, _, _)
KeptLinks(links, visited, dom) ==
  IF links = <<>> THEN <<>>
  ELSE IF ~AlreadyVisited(visited, Head(links)) /\ isSameDomain(Head(links), dom)
       THEN <<Head(links)>> \o KeptLinks(Tail(links), visited, dom)
       ELSE KeptLinks(Tail(links), visited, dom)

Range(s) == {s[k] : k \in DOMAIN s}

CrawlIdle ==
  /\ crawlEvent = [url |-> NoUrl, crawlDepth |-> 0]
  /\ baseUrl = NoUrl
  /\ domain = <<>>
  /\ visitedUrls = {}
  /\ urlsToCrawl = <<>>
  /\ newUrlsToCrawl = <<>>
  /\ crawledPages = {}
  /\ depth = 0
  /\ batchIndex = 0
  /\ inFlight = {}
  /\ fetched = <<>>
  /\ reach = [u \in {} |-> 0]
  /\ crawlPc = "idle"
  /\ crawlResult = "none"

InitCrawl ==
  /\ ChunkIdle
  /\ OrchIdle
  /\ LambdaIdle
  /\ crawlEvent \in [url : StartUrls, crawlDepth : 0..CrawlDepthMax]
  /\ baseUrl = NoUrl
  /\ domain = <<>>
  /\ visitedUrls = {}
  /\ urlsToCrawl = <<>>
  /\ newUrlsToCrawl = <<>>
  /\ crawledPages = {}
  /\ depth = 0
  /\ batchIndex = 0
  /\ inFlight = {}
  /\ fetched = <<>>
  /\ reach = [u \in {} |-> 0]
  /\ crawlPc = "start"
  /\ crawlResult = "none"

\* lines 413-434: URL check, normalization, loop set-up; an invalid URL
\* throws and the catch block reports it and rethrows
StartCrawl ==
  /\ crawlPc = "start"
  /\ IF ~isValidUrl(crawlEvent.url)
     THEN /\ crawlPc' = "failed"
          /\ crawlResult' = "Invalid URL"
          /\ UNCHANGED <<baseUrl, domain, urlsToCrawl, reach>>
     ELSE /\ baseUrl' = normalizeUrl(crawlEvent.url)
          /\ domain' = baseUrl'.host
          /\ urlsToCrawl' = <<baseUrl'>>
          /\ reach' = (baseUrl' :> 0)
          /\ crawlPc' = IF DepthLoopContinues(0, EffectiveDepth(crawlEvent))
                        THEN "launch" ELSE "store"
          /\ UNCHANGED crawlResult
  /\ UNCHANGED <<crawlEvent, visitedUrls, newUrlsToCrawl, crawledPages, depth,
                 batchIndex, inFlight, fetched>>
  /\ UNCHANGED <<chunkVars, orchVars, lambdaVars>>

\* lines 443-454: the batch's callbacks run up to their first await
LaunchBatch ==
  /\ crawlPc = "launch"
  /\ LET urlBatch == Slice(urlsToCrawl, batchIndex, batchSize)
         st == LaunchLoop([visited |-> visitedUrls, started |-> <<>>], urlBatch)
     IN  /\ visitedUrls' = st.visited
         /\ fetched' = fetched \o st.started
         /\ inFlight' = Range(st.started)
  /\ crawlPc' = "await"
  /\ UNCHANGED <<crawlEvent, baseUrl, domain, urlsToCrawl, newUrlsToCrawl,
                 crawledPages, depth, batchIndex, reach, crawlResult>>
  /\ UNCHANGED <<chunkVars, orchVars, lambdaVars>>

\* lines 454-475: crawlUrl returns for one URL (a failed fetch returns no
\* content and no links) and the callback finishes
FetchReturns(u, hasContent, links) ==
  /\ crawlPc = "await"
  /\ u \in inFlight
  /\ inFlight' = inFlight \ {u}
  /\ crawledPages' = IF hasContent THEN crawledPages \cup {u} ELSE crawledPages
  /\ IF FollowsLinks(depth, EffectiveDepth(crawlEvent))
     THEN LET kept == KeptLinks(links, visitedUrls, domain)
          IN  /\ newUrlsToCrawl' = newUrlsToCrawl \o kept
              /\ reach' = [l \in DOMAIN reach \cup Range(kept) |->
                             IF l \in Range(kept)
                             THEN IF l \in DOMAIN reach
                                  THEN Min(reach[l], reach[u] + 1)
                                  ELSE reach[u] + 1
                             ELSE reach[l]]
     ELSE UNCHANGED <<newUrlsToCrawl, reach>>
  /\ UNCHANGED <<crawlEvent, baseUrl, domain, visitedUrls, urlsToCrawl, depth,
                 batchIndex, fetched, crawlPc, crawlResult>>
  /\ UNCHANGED <<chunkVars, orchVars, lambdaVars>>

\* lines 478-484: Promise.all resolved and more URLs of this level remain
NextBatch ==
  /\ crawlPc = "await"
  /\ inFlight = {}
  /\ batchIndex + batchSize < Len(urlsToCrawl)
  /\ batchIndex' = batchIndex + batchSize
  /\ crawlPc' = "launch"
  /\ UNCHANGED <<crawlEvent, baseUrl, domain, visitedUrls, urlsToCrawl,
                 newUrlsToCrawl, crawledPages, depth, inFlight, fetched, reach,
                 crawlResult>>
  /\ UNCHANGED <<chunkVars, orchVars, lambdaVars>>

\* lines 486-493 and 434: the level is finished
EndLevel ==
  /\ crawlPc = "await"
  /\ inFlight = {}
  /\ ~(batchIndex + batchSize < Len(urlsToCrawl))
  /\ urlsToCrawl' = Dedup(newUrlsToCrawl)
  /\ IF Len(urlsToCrawl') = 0
     THEN /\ crawlPc' = "store"
          /\ UNCHANGED <<depth, newUrlsToCrawl, batchIndex>>
     ELSE /\ depth' = depth + 1
          /\ IF DepthLoopContinues(depth', EffectiveDepth(crawlEvent))
             THEN /\ newUrlsToCrawl' = <<>>
                  /\ batchIndex' = 0
                  /\ crawlPc' = "launch"
             ELSE /\ crawlPc' = "store"
                  /\ UNCHANGED <<newUrlsToCrawl, batchIndex>>
  /\ UNCHANGED <<crawlEvent, baseUrl, domain, visitedUrls, crawledPages, inFlight,
                 fetched, reach, crawlResult>>
  /\ UNCHANGED <<chunkVars, orchVars, lambdaVars>>

\* lines 497-560: the pages are written to the object store and the source
\* record to the document store; a failed write throws
StoreCrawl(s3Ok, dbOk) ==
  /\ crawlPc = "store"
  /\ IF s3Ok /\ dbOk
     THEN /\ crawlPc' = "done"
          /\ crawlResult' = [status |-> "success", sourceUrl |-> baseUrl,
                             pageCount |-> Cardinality(crawledPages)]
     ELSE /\ crawlPc' = "failed"
          /\ crawlResult' = IF s3Ok THEN "document store error" ELSE "object store error"
  /\ UNCHANGED <<crawlEvent, baseUrl, domain, visitedUrls, urlsToCrawl,
                 newUrlsToCrawl, crawledPages, depth, batchIndex, inFlight, fetched,
                 reach>>
  /\ UNCHANGED <<chunkVars, orchVars, lambdaVars>>

\* the links of a page are drawn only where the callback reads them
ReturnedLinks ==
  IF FollowsLinks(depth, EffectiveDepth(crawlEvent)) THEN LinkArrays ELSE {<<>>}

NextCrawl ==
  \/ StartCrawl
  \/ LaunchBatch
  \/ \E u \in inFlight, hasContent \in BOOLEAN, links \in ReturnedLinks :
       FetchReturns(u, hasContent, links)
  \/ NextBatch
  \/ EndLevel
  \/ \E s3Ok, dbOk \in BOOLEAN : StoreCrawl(s3Ok, dbOk)

SpecCrawl == InitCrawl /\ [][NextCrawl]_vars

(***************************************************************************)
(* Properties of the crawler (SpecCrawl).                                  *)
(***************************************************************************)

Labels(host) == Split(host, {"."})

BelongsToDomain(host, dom) ==
  LET hl == Labels(host)
      dl == Labels(dom)
  IN  /\ Len(dl) <= Len(hl)
      /\ \A k \in 1..Len(dl) : hl[Len(hl) - Len(dl) + k] = dl[k]

ClaimedDepth == IF crawlEvent.crawlDepth = 0 THEN 1 ELSE crawlEvent.crawlDepth

\* C7: with crawlDepth = d every requested URL is within d-1 link hops of the
\* start URL; with crawlDepth = 1 exactly the start URL is requested, and the
\* crawl stage ends in success unless a write of its result fails.
C7_DepthBound ==
  /\ \A k \in DOMAIN fetched :
       /\ fetched[k] \in DOMAIN reach
       /\ reach[fetched[k]] <= ClaimedDepth - 1
  /\ (ClaimedDepth = 1 /\ crawlPc \in {"store", "done", "failed"} /\ baseUrl # NoUrl)
       => fetched = <<baseUrl>>
  /\ crawlPc = "done" => crawlResult.status = "success"
  /\ crawlPc = "failed" =>
       crawlResult \in {"Invalid URL", "object store error", "document store error"}

\* a crawl of depth 1 that fetched the start page, kept it and succeeded
C7_Witness ==
  /\ crawlPc = "done"
  /\ crawlEvent.crawlDepth = 1
  /\ fetched = <<baseUrl>>
  /\ crawledPages = {baseUrl}
  /\ crawlResult.status = "success"

\* a crawl of depth 3 that fetched a page two hops away from the start
C7_WitnessDeep ==
  /\ crawlPc = "done"
  /\ \E k \in DOMAIN fetched : reach[fetched[k]] = 2

(***************************************************************************)
(* The chunker as a step of its own.                                       *)
(***************************************************************************)
InitChunk ==
  /\ CrawlIdle
  /\ OrchIdle
  /\ LambdaIdle
  /\ text \in SeqsUpTo(Alphabet, MaxTextLen)
  /\ maxChunkSize \in 1..MaxChunkBound
  /\ chunks = <<>>
  /\ chunkPc = "input"

SplitText ==
  /\ chunkPc = "input"
  /\ chunks' = splitTextIntoChunks(text, maxChunkSize)
  /\ chunkPc' = "done"
  /\ UNCHANGED <<text, maxChunkSize>>
  /\ UNCHANGED <<crawlVars, orchVars, lambdaVars>>

NextChunk == SplitText

SpecChunk == InitChunk /\ [][NextChunk]_vars

(***************************************************************************)
(* Properties of the chunker (SpecChunk).                                  *)
(***************************************************************************)

\* the texts cleanText produces: no newline, no leading or trailing
\* whitespace, no two whitespace characters in a row
IsNormalizedText(t) ==
  /\ \A k \in DOMAIN t : t[k] # NL
  /\ t = Trim(t)
  /\ \A k \in 1..(Len(t) - 1) : ~(t[k] \in Whitespace /\ t[k + 1] \in Whitespace)

RECURSIVE Concat(_)
Concat(pieces) ==
  IF pieces = <<>> THEN <<>> ELSE Head(pieces) \o Concat(Tail(pieces))

RECURSIVE StripWhitespace(_)
StripWhitespace(t) ==
  IF t = <<>> THEN <<>>
  ELSE IF Head(t) \in Whitespace THEN StripWhitespace(Tail(t))
       ELSE <<Head(t)>> \o StripWhitespace(Tail(t))

\* C8: for every text and every maxChunkSize >= 1 no chunk returned by
\* splitTextIntoChunks is longer than maxChunkSize characters.
C8_ChunkWithinMax ==
  chunkPc = "done" => \A k \in DOMAIN chunks : Len(chunks[k]) <= maxChunkSize

\* C9: for every text splitTextIntoChunks returns no empty chunk.
C9_NoEmptyChunk ==
  chunkPc = "done" => \A k \in DOMAIN chunks : chunks[k] # <<>>

\* C10: for every normalized text the chunks, concatenated in order, hold the
\* non-whitespace characters of the text, all of them, unchanged and in order.
C10_LosslessReassembly ==
  (chunkPc = "done" /\ IsNormalizedText(text))
    => StripWhitespace(Concat(chunks)) = StripWhitespace(text)

(***************************************************************************)
(* Input validation (validate_input.js).                                   *)
(*                                                                         *)
(* A missing string field is "".  A config value is absent, a number       *)
(* (kept in tenths, so that 3.5 is 35) or a text that is no number.        *)
(***************************************************************************)
MaxSources == 2

Num(t) == [kind |-> "number", tenths |-> t]
NotANumber == [kind |-> "text", tenths |-> 0]

Source(t, u, n) == [type |-> t, url |-> u, name |-> n]

\* parseInt(value, 10) of a number: its digits before the decimal point
ParseInt(v) ==
  IF v.tenths >= 0 THEN v.tenths \div 10 ELSE -((-v.tenths) \div 10)

\* `isNaN(x) || x < lo || x > hi` for a value that is not undefined
RangeError(v, lo, hi) ==
  /\ v.kind # "undefined"
  /\ \/ v.kind = "text"
     \/ ParseInt(v) < lo
     \/ ParseInt(v) > hi

\* the validation knows a type the Choice state does not
RecognizedTypes_WithFtp == {"website", "api", "document", "ftp"}

RecognizedTypes == {"website", "api", "document"}

TenantErrors(ev) ==
  IF ev.tenantId = "" THEN {"Missing required parameter: tenantId"}
  ELSE IF ev.tenantLookup = "error" THEN {"Error verifying tenant"}
  ELSE IF ev.tenantLookup = "missing" THEN {"Tenant not found"}
  ELSE {}

SourceErrors(src) ==
  (IF src.type = "" THEN {"missing required parameter: type"}
   ELSE IF src.type \notin RecognizedTypes THEN {"invalid type"}
   ELSE {})
  \cup (IF src.url = "" THEN {"missing required parameter: url"} ELSE {})
  \cup (IF src.name = "" THEN {"missing required parameter: name"} ELSE {})

DataSourcesErrors(ev) ==
  IF ~ev.hasDataSources \/ Len(ev.dataSources) = 0
  THEN {"Missing or invalid dataSources"}
  ELSE UNION {SourceErrors(ev.dataSources[k]) : k \in DOMAIN ev.dataSources}

ConfigErrors(ev) ==
  IF ~ev.hasConfig THEN {"Missing or invalid config"}
  ELSE (IF RangeError(ev.config.crawlDepth, 1, CrawlDepthMax)
        THEN {"Invalid crawlDepth"} ELSE {})
       \cup (IF RangeError(ev.config.memoryDuration, 5, 1440)
             THEN {"Invalid memoryDuration"} ELSE {})
       \cup (IF RangeError(ev.config.maxDocuments, 1, 20)
             THEN {"Invalid maxDocuments"} ELSE {})
       \cup (IF ev.config.embeddingModel \notin {"undefined", "string"}
             THEN {"Invalid embeddingModel"} ELSE {})

\* exports.handler of validate_input.js
ValidateInput(ev) ==
  LET errors == TenantErrors(ev) \cup DataSourcesErrors(ev) \cup ConfigErrors(ev)
  IN  [isValid |-> errors = {}, errors |-> errors]

(***************************************************************************)
(* The state machine definition, read as data.                             *)
(***************************************************************************)
MaxAttempts == 3

AdapterTasks == {"CrawlWebsite", "FetchFromApi", "ProcessDocument"}
SourceTasks == AdapterTasks \cup {"ExtractText", "GenerateEmbeddings", "StoreEmbeddings"}
TenantTasks == {"ConfigureMemoryDuration", "UpdateMetadata", "ScheduleNextCrawl",
                "AnalyzeResults", "NotifyCompletion"}
SourceErrorStates == {"CrawlError", "ApiError", "DocumentError", "InvalidSourceType",
                      "ExtractError", "EmbeddingError", "StorageError"}
TenantErrorStates == {"MemoryConfigError", "MetadataError", "ScheduleError"}

\* the error names a Task invocation may end with
ErrorNames == {"ServiceException", "TooManyRequestsException", "Error"}

\* "Retry"[0]."ErrorEquals" of a Task ({} when the Task has no Retry)
RetryErrorsOf(st) ==
  CASE st \in {"CrawlWebsite", "FetchFromApi"}
         -> {"ServiceException", "TooManyRequestsException"}
    [] st \in {"ProcessDocument", "ExtractText", "GenerateEmbeddings", "StoreEmbeddings",
               "ConfigureMemoryDuration", "UpdateMetadata", "ScheduleNextCrawl"}
         -> {"ServiceException"}
    [] OTHER -> {}

CatchOf_AdaptersOnly(st) ==
  CASE st = "CrawlWebsite" -> "CrawlError"
    [] st = "FetchFromApi" -> "ApiError"
    [] st = "ProcessDocument" -> "DocumentError"
    [] OTHER -> "none"

CatchOf_SourceStagesOnly(st) ==
  CASE st = "CrawlWebsite" -> "CrawlError"
    [] st = "FetchFromApi" -> "ApiError"
    [] st = "ProcessDocument" -> "DocumentError"
    [] st = "ExtractText" -> "ExtractError"
    [] st = "GenerateEmbeddings" -> "EmbeddingError"
    [] st = "StoreEmbeddings" -> "StorageError"
    [] OTHER -> "none"

\* "Catch"[0]."Next" of a Task, every Catch being on States.ALL ("none" when
\* the Task has no Catch)
CatchOf(st) ==
  CASE st = "CrawlWebsite" -> "CrawlError"
    [] st = "FetchFromApi" -> "ApiError"
    [] st = "ProcessDocument" -> "DocumentError"
    [] st = "ExtractText" -> "ExtractError"
    [] st = "GenerateEmbeddings" -> "EmbeddingError"
    [] st = "StoreEmbeddings" -> "StorageError"
    [] st = "ConfigureMemoryDuration" -> "MemoryConfigError"
    [] st = "UpdateMetadata" -> "MetadataError"
    [] st = "ScheduleNextCrawl" -> "ScheduleError"
    [] OTHER -> "none"

\* the error handlers of the tenant-level steps end the execution
NextOf_ErrorStatesEnd(st) ==
  CASE st = "ValidateInput" -> "CheckValidationResult"
    [] st = "ProcessDataSources" -> "ConfigureMemoryDuration"
    [] st \in AdapterTasks -> "ExtractText"
    [] st = "ExtractText" -> "GenerateEmbeddings"
    [] st = "GenerateEmbeddings" -> "StoreEmbeddings"
    [] st = "StoreEmbeddings" -> "SourceProcessingSucceeded"
    [] st \in SourceErrorStates -> "SourceProcessingFailed"
    [] st = "ConfigureMemoryDuration" -> "UpdateMetadata"
    [] st = "UpdateMetadata" -> "ScheduleNextCrawl"
    [] st = "ScheduleNextCrawl" -> "AnalyzeResults"
    [] st = "AnalyzeResults" -> "NotifyCompletion"
    [] OTHER -> "End"

\* "Next" of a state ("End" when the state has "End": true)
NextOf(st) ==
  CASE st = "ValidateInput" -> "CheckValidationResult"
    [] st = "ValidationError" -> "End"
    [] st = "ProcessDataSources" -> "ConfigureMemoryDuration"
    [] st \in AdapterTasks -> "ExtractText"
    [] st = "ExtractText" -> "GenerateEmbeddings"
    [] st = "GenerateEmbeddings" -> "StoreEmbeddings"
    [] st = "StoreEmbeddings" -> "SourceProcessingSucceeded"
    [] st \in SourceErrorStates -> "SourceProcessingFailed"
    [] st \in {"SourceProcessingSucceeded", "SourceProcessingFailed"} -> "End"
    [] st \in {"ConfigureMemoryDuration", "MemoryConfigError"} -> "UpdateMetadata"
    [] st \in {"UpdateMetadata", "MetadataError"} -> "ScheduleNextCrawl"
    [] st \in {"ScheduleNextCrawl", "ScheduleError"} -> "AnalyzeResults"
    [] st = "AnalyzeResults" -> "NotifyCompletion"
    [] st = "NotifyCompletion" -> "End"
    [] OTHER -> "End"

CheckValidationResult_Ignored(v) == "ProcessDataSources"

\* the Choice state CheckValidationResult
CheckValidationResult(v) ==
  IF v.isValid = TRUE THEN "ProcessDataSources" ELSE "ValidationError"

\* the Default of the Choice state is the website adapter
DetermineSourceType_DefaultsToCrawl(src) ==
  CASE src.type = "api" -> "FetchFromApi"
    [] src.type = "document" -> "ProcessDocument"
    [] OTHER -> "CrawlWebsite"

\* the Choice state DetermineSourceType
DetermineSourceType(src) ==
  CASE src.type = "website" -> "CrawlWebsite"
    [] src.type = "api" -> "FetchFromApi"
    [] src.type = "document" -> "ProcessDocument"
    [] OTHER -> "InvalidSourceType"

\* "Result"."status" of the two Pass states
PassStatus(st) ==
  IF st = "SourceProcessingSucceeded" THEN "succeeded" ELSE "failed"

\* a transient error is retried however often it has been
OnTaskError_RetriesForever(st, r, err) ==
  IF err \in RetryErrorsOf(st) THEN "retry"
  ELSE IF CatchOf(st) # "none" THEN "catch"
  ELSE "fail"

\* what the state machine does with a failed Task invocation
OnTaskError(st, r, err) ==
  IF err \in RetryErrorsOf(st) /\ r < MaxAttempts THEN "retry"
  ELSE IF CatchOf(st) # "none" THEN "catch"
  ELSE "fail"

\* "Parameters" of an error-handler state: tenantId is not among them; the
\* iterator states pass the data source, the top-level ones do not
HandlerEvent(st, i) ==
  [error |-> st, tenantId |-> "", item |-> IF st \in SourceErrorStates THEN i ELSE 0]

\* error_handler.js: the item storeErrorInDynamoDB puts
ErrorItem(hev) ==
  [errorType |-> IF hev.error = "" THEN "UnknownError" ELSE hev.error,
   tenantId |-> IF hev.tenantId = "" THEN "unknown" ELSE hev.tenantId,
   item |-> hev.item]

\* storeErrorInDynamoDB: a failed put is logged and swallowed
StoreError(records, hev, putOk) ==
  IF putOk THEN records \cup {ErrorItem(hev)} ELSE records

NewBranch == [state |-> "DetermineSourceType", retries |-> 0, status |-> "none",
              failedAt |-> "none", ended |-> FALSE]

(***************************************************************************)
(* The execution of the state machine.                                     *)
(***************************************************************************)
Running == runStatus = "RUNNING"

ValidateInputStep ==
  /\ Running
  /\ pc = "ValidateInput"
  /\ validation' = ValidateInput(event)
  /\ executed' = executed \cup {<<0, "ValidateInput">>}
  /\ pc' = NextOf("ValidateInput")
  /\ UNCHANGED <<event, runStatus, retries, branch, errorRecords>>
  /\ UNCHANGED <<chunkVars, crawlVars, lambdaVars>>

CheckValidationResultStep ==
  /\ Running
  /\ pc = "CheckValidationResult"
  /\ pc' = CheckValidationResult(validation)
  /\ branch' = IF pc' = "ProcessDataSources"
               THEN [i \in DOMAIN event.dataSources |-> NewBranch]
               ELSE branch
  /\ UNCHANGED <<event, validation, runStatus, retries, executed, errorRecords>>
  /\ UNCHANGED <<chunkVars, crawlVars, lambdaVars>>

\* the error-handler Task ValidationError, which ends the execution
ValidationErrorStep(putOk) ==
  /\ Running
  /\ pc = "ValidationError"
  /\ errorRecords' = StoreError(errorRecords, HandlerEvent("ValidationError", 0), putOk)
  /\ executed' = executed \cup {<<0, "ValidationError">>}
  /\ runStatus' = "SUCCEEDED"
  /\ UNCHANGED <<event, validation, pc, retries, branch>>
  /\ UNCHANGED <<chunkVars, crawlVars, lambdaVars>>

InMap == Running /\ pc = "ProcessDataSources"

BranchChoice(i) ==
  /\ InMap
  /\ branch[i].state = "DetermineSourceType"
  /\ branch' = [branch EXCEPT ![i].state = DetermineSourceType(event.dataSources[i])]
  /\ UNCHANGED <<event, validation, pc, runStatus, retries, executed, errorRecords>>
  /\ UNCHANGED <<chunkVars, crawlVars, lambdaVars>>

BranchTaskSucceeds(i) ==
  /\ InMap
  /\ ~branch[i].ended
  /\ branch[i].state \in SourceTasks
  /\ executed' = executed \cup {<<i, branch[i].state>>}
  /\ branch' = [branch EXCEPT ![i].state = NextOf(@), ![i].retries = 0]
  /\ UNCHANGED <<event, validation, pc, runStatus, retries, errorRecords>>
  /\ UNCHANGED <<chunkVars, crawlVars, lambdaVars>>

\* a failed invocation: retried, caught, or (no Catch) failing the iteration,
\* with it the Map state and, the Map having no Catch, the execution
BranchTaskFails(i, err) ==
  /\ InMap
  /\ ~branch[i].ended
  /\ branch[i].state \in SourceTasks
  /\ executed' = executed \cup {<<i, branch[i].state>>}
  /\ LET what == OnTaskError(branch[i].state, branch[i].retries, err)
     IN  CASE what = "retry" ->
                /\ branch' = [branch EXCEPT ![i].retries = @ + 1]
                /\ UNCHANGED runStatus
           [] what = "catch" ->
                /\ branch' = [branch EXCEPT ![i].state = CatchOf(@),
                                            ![i].retries = 0,
                                            ![i].failedAt = branch[i].state]
                /\ UNCHANGED runStatus
           [] OTHER ->
                /\ runStatus' = "FAILED"
                /\ UNCHANGED branch
  /\ UNCHANGED <<event, validation, pc, retries, errorRecords>>
  /\ UNCHANGED <<chunkVars, crawlVars, lambdaVars>>

\* an error-handler Task of the iterator; the handler catches whatever its
\* own steps throw and returns
BranchErrorHandled(i, putOk) ==
  /\ InMap
  /\ branch[i].state \in SourceErrorStates
  /\ errorRecords' = StoreError(errorRecords, HandlerEvent(branch[i].state, i), putOk)
  /\ executed' = executed \cup {<<i, branch[i].state>>}
  /\ branch' = [branch EXCEPT ![i].state = NextOf(@),
                              ![i].failedAt = IF @ = "none" THEN branch[i].state ELSE @]
  /\ UNCHANGED <<event, validation, pc, runStatus, retries>>
  /\ UNCHANGED <<chunkVars, crawlVars, lambdaVars>>

BranchPass(i) ==
  /\ InMap
  /\ ~branch[i].ended
  /\ branch[i].state \in {"SourceProcessingSucceeded", "SourceProcessingFailed"}
  /\ branch' = [branch EXCEPT ![i].status = PassStatus(branch[i].state),
                              ![i].ended = TRUE]
  /\ UNCHANGED <<event, validation, pc, runStatus, retries, executed, errorRecords>>
  /\ UNCHANGED <<chunkVars, crawlVars, lambdaVars>>

\* the Map state completes when one iteration has ended
MapCompletes_AnyEnded ==
  /\ InMap
  /\ \E i \in DOMAIN branch : branch[i].ended
  /\ pc' = NextOf("ProcessDataSources")
  /\ retries' = 0
  /\ UNCHANGED <<event, validation, runStatus, branch, executed, errorRecords>>
  /\ UNCHANGED <<chunkVars, crawlVars, lambdaVars>>

\* the Map state completes when every iteration has ended
MapCompletes ==
  /\ InMap
  /\ \A i \in DOMAIN branch : branch[i].ended
  /\ pc' = NextOf("ProcessDataSources")
  /\ retries' = 0
  /\ UNCHANGED <<event, validation, runStatus, branch, executed, errorRecords>>
  /\ UNCHANGED <<chunkVars, crawlVars, lambdaVars>>

Leave(st) ==
  IF NextOf(st) = "End"
  THEN /\ runStatus' = "SUCCEEDED"
       /\ UNCHANGED pc
  ELSE /\ pc' = NextOf(st)
       /\ UNCHANGED runStatus

TenantTaskSucceeds ==
  /\ Running
  /\ pc \in TenantTasks
  /\ executed' = executed \cup {<<0, pc>>}
  /\ Leave(pc)
  /\ retries' = 0
  /\ UNCHANGED <<event, validation, branch, errorRecords>>
  /\ UNCHANGED <<chunkVars, crawlVars, lambdaVars>>

TenantTaskFails(err) ==
  /\ Running
  /\ pc \in TenantTasks
  /\ executed' = executed \cup {<<0, pc>>}
  /\ LET what == OnTaskError(pc, retries, err)
     IN  CASE what = "retry" ->
                /\ retries' = retries + 1
                /\ UNCHANGED <<pc, runStatus>>
           [] what = "catch" ->
                /\ pc' = CatchOf(pc)
                /\ retries' = 0
                /\ UNCHANGED runStatus
           [] OTHER ->
                /\ runStatus' = "FAILED"
                /\ UNCHANGED <<pc, retries>>
  /\ UNCHANGED <<event, validation, branch, errorRecords>>
  /\ UNCHANGED <<chunkVars, crawlVars, lambdaVars>>

TenantErrorHandled(putOk) ==
  /\ Running
  /\ pc \in TenantErrorStates
  /\ errorRecords' = StoreError(errorRecords, HandlerEvent(pc, 0), putOk)
  /\ executed' = executed \cup {<<0, pc>>}
  /\ Leave(pc)
  /\ UNCHANGED <<event, validation, retries, branch>>
  /\ UNCHANGED <<chunkVars, crawlVars, lambdaVars>>

(***************************************************************************)
(* The inputs.                                                             *)
(***************************************************************************)
ValidConfig == [crawlDepth |-> Num(20), memoryDuration |-> NoConfigValue,
                maxDocuments |-> Num(50), embeddingModel |-> "undefined"]

\* the shapes of a data source: one of each recognized type, an unknown
\* type, and one with each required field missing
SourceShapes == {Source("website", "u", "n"), Source("api", "u", "n"),
                 Source("document", "u", "n"), Source("ftp", "u", "n"),
                 Source("", "u", "n"), Source("website", "", "n"),
                 Source("document", "u", "")}

RECURSIVE SourceLists(_, _)
SourceLists(shapes, n) ==
  IF n = 0 THEN {<<>>}
  ELSE LET shorter == SourceLists(shapes, n - 1)
       IN  shorter \cup {Append(l, x) : l \in {t \in shorter : Len(t) = n - 1},
                                         x \in shapes}

Tenants == {[tenantId |-> "", tenantLookup |-> "found"],
            [tenantId |-> "t1", tenantLookup |-> "found"],
            [tenantId |-> "t1", tenantLookup |-> "missing"],
            [tenantId |-> "t1", tenantLookup |-> "error"]}

MakeEvent(t, has, srcs, hasCfg, cfg) ==
  [tenantId |-> t.tenantId, tenantLookup |-> t.tenantLookup, hasDataSources |-> has,
   dataSources |-> srcs, hasConfig |-> hasCfg, config |-> cfg]

Configs ==
  [crawlDepth : {NoConfigValue, NotANumber, Num(5), Num(10), Num(30), Num(35), Num(40)},
   memoryDuration : {NoConfigValue, Num(40), Num(50), Num(14405)},
   maxDocuments : {NoConfigValue, Num(0), Num(200), Num(205)},
   embeddingModel : {"undefined", "string", "number"}]

\* the inputs of the validation taken alone: every list of sources with a
\* valid and an invalid config, every config with at most one source, and
\* the requests without a list or without a config
ValidationEvents ==
  {MakeEvent(t, TRUE, srcs, TRUE, cfg) :
     t \in Tenants, srcs \in SourceLists(SourceShapes, MaxSources),
     cfg \in {ValidConfig, [ValidConfig EXCEPT !.maxDocuments = Num(205)]}}
  \cup {MakeEvent(t, TRUE, srcs, TRUE, cfg) :
          t \in Tenants, srcs \in SourceLists(SourceShapes, 1), cfg \in Configs}
  \cup {MakeEvent(t, FALSE, <<>>, TRUE, ValidConfig) : t \in Tenants}
  \cup {MakeEvent(t, TRUE, srcs, FALSE, NoEvent.config) :
          t \in Tenants, srcs \in SourceLists(SourceShapes, MaxSources)}

\* the type of the k-th source of a run over sources of mixed types
TypeOfItem(k) ==
  CASE k % 3 = 1 -> "website"
    [] k % 3 = 2 -> "document"
    [] OTHER -> "api"

MixedSources(n) == [k \in 1..n |-> Source(TypeOfItem(k), "u", "n")]

\* the source lists of whole executions: no source, one source of each
\* shape, and up to MaxSources sources of mixed types, all of them valid or
\* the last one of an unknown type
PipelineSourceLists ==
  {<<>>}
  \cup {<<src>> : src \in SourceShapes}
  \cup {MixedSources(n) : n \in 1..MaxSources}
  \cup {[MixedSources(n) EXCEPT ![n] = Source("ftp", "u", "n")] : n \in 1..MaxSources}

\* the inputs of whole executions: fewer config values, since the state
\* machine only hands the config on
PipelineEvents ==
  {MakeEvent(t, TRUE, srcs, TRUE, cfg) :
     t \in {x \in Tenants : x.tenantId # "" /\ x.tenantLookup # "error"},
     srcs \in PipelineSourceLists,
     cfg \in {ValidConfig, [ValidConfig EXCEPT !.crawlDepth = Num(40)]}}

InitOrch(events) ==
  /\ event \in events
  /\ validation = NoValidation
  /\ pc = "ValidateInput"
  /\ runStatus = "RUNNING"
  /\ retries = 0
  /\ branch = <<>>
  /\ executed = {}
  /\ errorRecords = {}

Init ==
  /\ ChunkIdle
  /\ CrawlIdle
  /\ LambdaIdle
  /\ InitOrch(PipelineEvents)

Next ==
  \/ ValidateInputStep
  \/ CheckValidationResultStep
  \/ \E putOk \in BOOLEAN : ValidationErrorStep(putOk)
  \/ \E i \in DOMAIN branch : BranchChoice(i)
  \/ \E i \in DOMAIN branch : BranchTaskSucceeds(i)
  \/ \E i \in DOMAIN branch, err \in ErrorNames : BranchTaskFails(i, err)
  \/ \E i \in DOMAIN branch, putOk \in BOOLEAN : BranchErrorHandled(i, putOk)
  \/ \E i \in DOMAIN branch : BranchPass(i)
  \/ MapCompletes
  \/ TenantTaskSucceeds
  \/ \E err \in ErrorNames : TenantTaskFails(err)
  \/ \E putOk \in BOOLEAN : TenantErrorHandled(putOk)

Spec == Init /\ [][Next]_vars

\* the state machine always takes the next transition of a running execution
FairSpec == Spec /\ WF_vars(Next)

InitValidate ==
  /\ ChunkIdle
  /\ CrawlIdle
  /\ LambdaIdle
  /\ InitOrch(ValidationEvents)

NextValidate == ValidateInputStep

SpecValidate == InitValidate /\ [][NextValidate]_vars

(***************************************************************************)
(* Properties of the validation and of the execution.                      *)
(***************************************************************************)
Validated == pc # "ValidateInput"

RunEnded == runStatus # "RUNNING"

StageTasksAndTenantSteps == SourceTasks \cup TenantTasks

\* a step of the iteration of source i
BranchStep(i) ==
  \/ BranchChoice(i)
  \/ BranchTaskSucceeds(i)
  \/ \E err \in ErrorNames : BranchTaskFails(i, err)
  \/ \E putOk \in BOOLEAN : BranchErrorHandled(i, putOk)
  \/ BranchPass(i)

C1_BranchOutcome(i) ==
  /\ branch[i].failedAt # "none" =>
       /\ branch[i].state \in SourceErrorStates \cup {"SourceProcessingFailed"}
       /\ branch[i].ended => branch[i].status = "failed"
  /\ (branch[i].ended /\ branch[i].failedAt = "none") => branch[i].status = "succeeded"
  /\ (InMap /\ ~branch[i].ended) => ENABLED BranchStep(i)

C2_InvalidRunsNothing ==
  (Validated /\ ~validation.isValid) =>
    /\ pc \in {"CheckValidationResult", "ValidationError"}
    /\ branch = <<>>
    /\ \A e \in executed : e[2] \notin StageTasksAndTenantSteps
    /\ RunEnded => pc = "ValidationError"

C2_Witness ==
  /\ ~validation.isValid
  /\ RunEnded
  /\ pc = "ValidationError"
  /\ <<0, "ValidationError">> \in executed
  /\ Len(event.dataSources) = MaxSources

\* the rejection rule as claimed: a value is out of range when it is no
\* number or lies outside lo..hi
OutOfRange(v, lo, hi) ==
  /\ v.kind # "undefined"
  /\ \/ v.kind = "text"
     \/ v.tenths < lo * 10
     \/ v.tenths > hi * 10

ClaimedReject(ev) ==
  \/ \E k \in DOMAIN ev.dataSources :
       \/ ev.dataSources[k].type \notin RecognizedTypes
       \/ ev.dataSources[k].url = ""
       \/ ev.dataSources[k].name = ""
  \/ OutOfRange(ev.config.crawlDepth, 1, 3)
  \/ OutOfRange(ev.config.memoryDuration, 5, 1440)
  \/ OutOfRange(ev.config.maxDocuments, 1, 20)

\* a known tenant, a non-empty list of sources, a config object whose
\* embeddingModel, if any, is a string
WellFormedRequest(ev) ==
  /\ ev.tenantId # ""
  /\ ev.tenantLookup = "found"
  /\ ev.hasDataSources
  /\ Len(ev.dataSources) > 0
  /\ ev.hasConfig
  /\ ev.config.embeddingModel \in {"undefined", "string"}

\* C3: for a well-formed request, ValidateInput rejects exactly the inputs
\* with an unrecognized type, a missing url or name, or a config value out
\* of range (crawlDepth outside 1..3, memoryDuration outside 5..1440,
\* maxDocuments outside 1..20), and accepts the others.
C3_RejectsExactly ==
  (Validated /\ WellFormedRequest(event)) =>
    (~validation.isValid <=> ClaimedReject(event))

AllOutcomesReported ==
  \A i \in DOMAIN event.dataSources :
    i \in DOMAIN branch /\ branch[i].ended /\ branch[i].status \in {"succeeded", "failed"}

C4_WitnessFailed ==
  /\ validation.isValid
  /\ runStatus = "FAILED"
  /\ pc = "AnalyzeResults"

(***************************************************************************)
(* The GenerateEmbeddings stage of one source: the handler of              *)
(* generate_embeddings.js, invoked by the Task state GenerateEmbeddings.   *)
(***************************************************************************)
MaxGenChunks == 2

\* generateEmbedding substitutes a random vector for a failed call
UsesFallback_Always(env) == TRUE

UsesFallback(env) == env = "development"

\* the Task is ready to invoke the function (again)
GenInvocable ==
  /\ InMap
  /\ branch[1].state = "GenerateEmbeddings"
  /\ genPc \in {"idle", "thrown"}
  /\ genInvocations = branch[1].retries

\* the function starts; ExtractText having succeeded, extractedText holds a
\* processedTextKey
GenStart ==
  /\ GenInvocable
  /\ genPc' = "read"
  /\ genInvocations' = genInvocations + 1
  /\ genChunkCount' = 0
  /\ genIndex' = 0
  /\ genEmbeddings' = 0
  /\ genError' = ""
  /\ UNCHANGED <<genEnv, genArtifacts, genCallFailed, genFallbacks>>
  /\ UNCHANGED genRest

\* the invocation fails before the function runs
GenInvokeFails(err) ==
  /\ GenInvocable
  /\ genPc' = "thrown"
  /\ genError' = err
  /\ genInvocations' = genInvocations + 1
  /\ UNCHANGED <<genEnv, genChunkCount, genIndex, genEmbeddings, genArtifacts,
                 genCallFailed, genFallbacks>>
  /\ UNCHANGED genRest

\* getEmbeddingApiKey, s3.getObject and splitTextIntoChunks
GenReadText(ok, n) ==
  /\ genPc = "read"
  /\ IF ok
     THEN /\ genPc' = "embed"
          /\ genChunkCount' = n
     ELSE /\ genPc' = "catch"
          /\ UNCHANGED genChunkCount
  /\ UNCHANGED <<genEnv, genIndex, genEmbeddings, genArtifacts, genInvocations,
                 genCallFailed, genFallbacks, genError>>
  /\ UNCHANGED genRest

\* one turn of the loop: generateEmbedding(chunk) and embeddings.push
GenEmbedChunk(callOk) ==
  /\ genPc = "embed"
  /\ genIndex < genChunkCount
  /\ IF callOk \/ UsesFallback(genEnv)
     THEN /\ genEmbeddings' = genEmbeddings + 1
          /\ genIndex' = genIndex + 1
          /\ genFallbacks' = IF callOk THEN genFallbacks ELSE genFallbacks + 1
          /\ UNCHANGED genPc
     ELSE /\ genPc' = "catch"
          /\ UNCHANGED <<genEmbeddings, genIndex, genFallbacks>>
  /\ genCallFailed' = (genCallFailed \/ (~callOk /\ genEnv # "development"))
  /\ UNCHANGED <<genEnv, genChunkCount, genArtifacts, genInvocations, genError>>
  /\ UNCHANGED genRest

\* s3.putObject of the embeddings and the return
GenStore(ok) ==
  /\ genPc = "embed"
  /\ genIndex = genChunkCount
  /\ IF ok
     THEN /\ genArtifacts' = genArtifacts + 1
          /\ genPc' = "returned"
     ELSE /\ genPc' = "catch"
          /\ UNCHANGED genArtifacts
  /\ UNCHANGED <<genEnv, genChunkCount, genIndex, genEmbeddings, genInvocations,
                 genCallFailed, genFallbacks, genError>>
  /\ UNCHANGED genRest

\* the catch block: the message to the dead-letter queue, then the rethrow;
\* a failed send throws in its turn.  Neither an Error of the function nor
\* an error of another service's client bears a name the Retry lists.
GenCatch(dlqOk) ==
  /\ genPc = "catch"
  /\ genPc' = "thrown"
  /\ genError' = "Error"
  /\ UNCHANGED <<genEnv, genChunkCount, genIndex, genEmbeddings, genArtifacts,
                 genInvocations, genCallFailed, genFallbacks>>
  /\ UNCHANGED genRest

GenInvoked ==
  /\ branch[1].state = "GenerateEmbeddings"
  /\ genInvocations = branch[1].retries + 1

\* the Task state GenerateEmbeddings takes the function's result
EmbedTaskReturns ==
  /\ genPc = "returned"
  /\ GenInvoked
  /\ BranchTaskSucceeds(1)

\* ... or its error
EmbedTaskThrows ==
  /\ genPc = "thrown"
  /\ GenInvoked
  /\ BranchTaskFails(1, genError)

\* the states of the iteration after GenerateEmbeddings
AfterEmbedSucceeds ==
  /\ branch[1].state # "GenerateEmbeddings"
  /\ BranchTaskSucceeds(1)

AfterEmbedFails(err) ==
  /\ branch[1].state # "GenerateEmbeddings"
  /\ BranchTaskFails(1, err)

\* an execution with one valid source whose iteration has reached
\* GenerateEmbeddings
AtStage(src, st, done) ==
  /\ event = MakeEvent([tenantId |-> "t1", tenantLookup |-> "found"], TRUE, <<src>>,
                       TRUE, ValidConfig)
  /\ validation = ValidateInput(event)
  /\ pc = "ProcessDataSources"
  /\ runStatus = "RUNNING"
  /\ retries = 0
  /\ branch = <<[NewBranch EXCEPT !.state = st]>>
  /\ executed = {<<0, "ValidateInput">>, <<1, DetermineSourceType(src)>>}
                  \cup {<<1, t>> : t \in done}
  /\ errorRecords = {}

InitEmbed ==
  /\ ChunkIdle
  /\ CrawlIdle
  /\ \E src \in {MixedSources(3)[k] : k \in 1..3} :
       AtStage(src, "GenerateEmbeddings", {"ExtractText"})
  /\ genPc = "idle"
  /\ genEnv \in {"production", "development"}
  /\ genChunkCount = 0
  /\ genIndex = 0
  /\ genEmbeddings = 0
  /\ genArtifacts = 0
  /\ genInvocations = 0
  /\ genCallFailed = FALSE
  /\ genFallbacks = 0
  /\ genError = ""
  /\ StIdle
  /\ ChatIdle
  /\ DocIdle
  /\ TextIdle
  /\ WriterIdle
  /\ TurnIdle
  /\ ExecIdle

NextEmbed ==
  \/ GenStart
  \/ \E err \in RetryErrorsOf("GenerateEmbeddings") : GenInvokeFails(err)
  \/ \E ok \in BOOLEAN, n \in 0..MaxGenChunks : GenReadText(ok, n)
  \/ \E callOk \in BOOLEAN : GenEmbedChunk(callOk)
  \/ \E ok \in BOOLEAN : GenStore(ok)
  \/ \E dlqOk \in BOOLEAN : GenCatch(dlqOk)
  \/ EmbedTaskReturns
  \/ EmbedTaskThrows
  \/ AfterEmbedSucceeds
  \/ \E err \in ErrorNames : AfterEmbedFails(err)
  \/ \E putOk \in BOOLEAN : BranchErrorHandled(1, putOk)
  \/ BranchPass(1)

SpecEmbed == InitEmbed /\ [][NextEmbed]_vars

\* C11: outside the fallback mode, once an embedding call has failed for a
\* chunk of the source, no embeddings object has been written, StoreEmbeddings
\* has not been run for the source, the iteration is still in
\* GenerateEmbeddings or on its way through EmbeddingError to
\* SourceProcessingFailed, and its outcome, once set, is failed.
C11_EmbeddingFailureFailsSource ==
  genCallFailed =>
    /\ genArtifacts = 0
    /\ <<1, "StoreEmbeddings">> \notin executed
    /\ branch[1].state \in {"GenerateEmbeddings", "EmbeddingError", "SourceProcessingFailed"}
    /\ genPc \in {"catch", "thrown"}
    /\ branch[1].state # "GenerateEmbeddings" => branch[1].failedAt = "GenerateEmbeddings"
    /\ branch[1].ended => branch[1].status = "failed"

\* the call failed for the second chunk, after a retried invocation
C11_Witness ==
  /\ genCallFailed
  /\ genEmbeddings = 1
  /\ genInvocations > 1
  /\ branch[1].ended
  /\ branch[1].status = "failed"
  /\ <<1, "EmbeddingError">> \in executed

(***************************************************************************)
(* The StoreEmbeddings stage of one source: the handler of                 *)
(* store_embeddings.js, invoked by the Task state StoreEmbeddings.         *)
(***************************************************************************)
MaxBulkBatches == 2
bulkBatchSize == 100

\* the batches array: one request body per slice of bulkBatchSize embeddings
BatchCount(n) == (n + bulkBatchSize - 1) \div bulkBatchSize

\* embeddings.slice(i, i + batchSize).length of the b-th batch, b from 0
BatchLen(n, b) == Min(bulkBatchSize, n - b * bulkBatchSize)

\* the lengths of embeddingsData tried: none, and a full and a just begun
\* last batch for each number of batches
EmbeddingCounts ==
  {0} \cup {b * bulkBatchSize : b \in 1..MaxBulkBatches}
      \cup {(b - 1) * bulkBatchSize + 1 : b \in 1..MaxBulkBatches}

BulkErrors_LastBatch(results) == results # <<>> /\ results[Len(results)]

\* combinedResult.errors: results.some(result => result.errors)
BulkErrors(results) == \E k \in DOMAIN results : results[k]

StInvocable ==
  /\ InMap
  /\ branch[1].state = "StoreEmbeddings"
  /\ stPc \in {"idle", "thrown"}
  /\ stInvocations = branch[1].retries

\* the function starts; GenerateEmbeddings having succeeded, embeddings holds
\* an embeddingsKey
StStart ==
  /\ StInvocable
  /\ stPc' = "read"
  /\ stInvocations' = stInvocations + 1
  /\ stCount' = 0
  /\ stBatch' = 0
  /\ stResults' = <<>>
  /\ stError' = ""
  /\ UNCHANGED <<stIndexed, stVectorCount>>
  /\ stCalls' = {}
  /\ UNCHANGED stRest

StInvokeFails(err) ==
  /\ StInvocable
  /\ stPc' = "thrown"
  /\ stError' = err
  /\ stInvocations' = stInvocations + 1
  /\ UNCHANGED <<stCount, stBatch, stResults, stIndexed, stVectorCount>>
  /\ stCalls' = {}
  /\ UNCHANGED stRest

\* s3.getObject and JSON.parse of the embeddings
StRead(ok, n) ==
  /\ stPc = "read"
  /\ IF ok
     THEN /\ stPc' = "check"
          /\ stCount' = n
     ELSE /\ stPc' = "catch"
          /\ UNCHANGED stCount
  /\ UNCHANGED <<stBatch, stResults, stIndexed, stVectorCount, stInvocations, stError>>
  /\ stCalls' = stCalls \cup {<<"getObject", IF ok THEN "ok" ELSE "error">>}
  /\ UNCHANGED stRest

\* checkIndexExists: true, false on a 404, or the error rethrown
StCheckIndex(answer) ==
  /\ stPc = "check"
  /\ stPc' = CASE answer = "exists" -> "bulk"
               [] answer = "404" -> "create"
               [] OTHER -> "catch"
  /\ UNCHANGED <<stCount, stBatch, stResults, stIndexed, stVectorCount, stInvocations,
                 stError>>
  /\ stCalls' = stCalls \cup {<<"head", answer>>}
  /\ UNCHANGED stRest

\* createVectorIndex(.., embeddingsData[0].embedding.length): a TypeError
\* when there is no first element
StCreateIndex(ok) ==
  /\ stPc = "create"
  /\ stPc' = IF stCount > 0 /\ ok THEN "bulk" ELSE "catch"
  /\ UNCHANGED <<stCount, stBatch, stResults, stIndexed, stVectorCount, stInvocations,
                 stError>>
  /\ stCalls' = IF stCount > 0
                THEN stCalls \cup {<<"put", IF ok THEN "ok" ELSE "error">>}
                ELSE stCalls
  /\ UNCHANGED stRest

\* one bulk request: it is rejected, or answers with or without failed
\* items, `done` of its documents being indexed
StBulkBatch(answer, done) ==
  /\ stPc = "bulk"
  /\ stBatch < BatchCount(stCount)
  /\ CASE answer = "rejected" ->
            /\ stPc' = "catch"
            /\ UNCHANGED <<stBatch, stResults, stIndexed>>
       [] answer = "errors" ->
            /\ done < BatchLen(stCount, stBatch)
            /\ stResults' = Append(stResults, TRUE)
            /\ stIndexed' = stIndexed + done
            /\ stBatch' = stBatch + 1
            /\ UNCHANGED stPc
       [] OTHER ->
            /\ done = BatchLen(stCount, stBatch)
            /\ stResults' = Append(stResults, FALSE)
            /\ stIndexed' = stIndexed + done
            /\ stBatch' = stBatch + 1
            /\ UNCHANGED stPc
  /\ UNCHANGED <<stCount, stVectorCount, stInvocations, stError>>
  /\ stCalls' = stCalls \cup {<<"bulk", answer>>}
  /\ UNCHANGED stRest

\* `if (bulkResponse.errors) throw`
StBulkDone ==
  /\ stPc = "bulk"
  /\ stBatch = BatchCount(stCount)
  /\ stPc' = IF BulkErrors(stResults) THEN "catch" ELSE "meta"
  /\ UNCHANGED <<stCount, stBatch, stResults, stIndexed, stVectorCount, stInvocations,
                 stError>>
  /\ UNCHANGED stCalls
  /\ UNCHANGED stRest

\* dynamoDB.update and the return of vectorCount
StUpdateMetadata(ok) ==
  /\ stPc = "meta"
  /\ IF ok
     THEN /\ stPc' = "returned"
          /\ stVectorCount' = stCount
     ELSE /\ stPc' = "catch"
          /\ UNCHANGED stVectorCount
  /\ UNCHANGED <<stCount, stBatch, stResults, stIndexed, stInvocations, stError>>
  /\ stCalls' = stCalls \cup {<<"update", IF ok THEN "ok" ELSE "error">>}
  /\ UNCHANGED stRest

\* the catch block: the message to the dead-letter queue, then the rethrow
StCatch(dlqOk) ==
  /\ stPc = "catch"
  /\ stPc' = "thrown"
  /\ stError' = "Error"
  /\ UNCHANGED <<stCount, stBatch, stResults, stIndexed, stVectorCount, stInvocations>>
  /\ UNCHANGED stCalls
  /\ UNCHANGED stRest

StInvoked ==
  /\ branch[1].state = "StoreEmbeddings"
  /\ stInvocations = branch[1].retries + 1

StoreTaskReturns ==
  /\ stPc = "returned"
  /\ StInvoked
  /\ BranchTaskSucceeds(1)

StoreTaskThrows ==
  /\ stPc = "thrown"
  /\ StInvoked
  /\ BranchTaskFails(1, stError)

InitStore ==
  /\ ChunkIdle
  /\ CrawlIdle
  /\ GenIdle
  /\ \E src \in {MixedSources(3)[k] : k \in 1..3} :
       AtStage(src, "StoreEmbeddings", {"ExtractText", "GenerateEmbeddings"})
  /\ StIdle
  /\ ChatIdle
  /\ DocIdle
  /\ TextIdle
  /\ WriterIdle
  /\ TurnIdle
  /\ ExecIdle

NextStore ==
  \/ StStart
  \/ \E err \in RetryErrorsOf("StoreEmbeddings") : StInvokeFails(err)
  \/ \E ok \in BOOLEAN, n \in EmbeddingCounts : StRead(ok, n)
  \/ \E answer \in {"exists", "404", "error"} : StCheckIndex(answer)
  \/ \E ok \in BOOLEAN : StCreateIndex(ok)
  \/ \E answer \in {"ok", "errors", "rejected"}, done \in {0, 1, bulkBatchSize - 1, bulkBatchSize} :
       StBulkBatch(answer, done)
  \/ StBulkDone
  \/ \E ok \in BOOLEAN : StUpdateMetadata(ok)
  \/ \E dlqOk \in BOOLEAN : StCatch(dlqOk)
  \/ StoreTaskReturns
  \/ StoreTaskThrows
  \/ \E putOk \in BOOLEAN : BranchErrorHandled(1, putOk)
  \/ BranchPass(1)

SpecStore == InitStore /\ [][NextStore]_vars

\* C12: once a bulk batch of the call has reported failed items, the call
\* does not return a vectorCount and the source's outcome is failed; and a
\* call that returns a vectorCount has indexed every record of the source.
C12_PartialBatchFailsCall ==
  /\ BulkErrors(stResults) =>
       /\ stPc # "returned" /\ stPc # "meta"
       /\ stVectorCount = -1
       /\ branch[1].state \in {"StoreEmbeddings", "StorageError", "SourceProcessingFailed"}
       /\ branch[1].ended => branch[1].status = "failed"
  /\ stVectorCount # -1 =>
       /\ stVectorCount = stCount
       /\ stIndexed = stCount

\* the first of two batches reported failed items, the second none; part of
\* the records is indexed and the source has failed
C12_Witness ==
  /\ Len(stResults) = 2
  /\ stResults[1] /\ ~stResults[2]
  /\ stIndexed > 0 /\ stIndexed < stCount
  /\ branch[1].ended
  /\ branch[1].status = "failed"

(***************************************************************************)
(* The retrieval path: the handler of chatbot_query.js, one call at a      *)
(* time.  Identifiers are strings (sequences of characters); a tenant id   *)
(* is an identifier assigned at provisioning and holds no ":", a chatbot   *)
(* id and the session id sent by the client may.  Time is in minutes and   *)
(* scores are in hundredths.                                               *)
(***************************************************************************)
MaxCalls == 2
MaxSessionCalls == 3
defaultMemoryDuration == 60
scoreThreshold == 50

TenantIds == {<<"a">>, <<"a", "b">>}
ChatbotIds == {<<"c">>, <<"b", ":", "c">>}
SessionIds == {<<"s">>, <<"c", ":", "s">>}

\* the chatbot items of the workflow table (memoryDuration 0: not set)
ChatbotTable ==
  {[tenantId |-> <<"a">>, id |-> <<"c">>, memoryDuration |-> 5],
   [tenantId |-> <<"a">>, id |-> <<"b", ":", "c">>, memoryDuration |-> 0],
   [tenantId |-> <<"a", "b">>, id |-> <<"c">>, memoryDuration |-> 0]}

\* the minutes that pass between two calls of a session: fewer than any
\* memory duration, more than the shorter one, more than both
TimeSteps == {1, 6, defaultMemoryDuration + 1}

\* the scores a hit may have
Scores == {scoreThreshold - 1, scoreThreshold, scoreThreshold + 1, 100}

Requests ==
  [tenantId : TenantIds, chatbotId : ChatbotIds, sessionId : SessionIds, hasQuery : {TRUE}]
  \cup {[tenantId |-> <<"a">>, chatbotId |-> <<"c">>, sessionId |-> <<"s">>,
         hasQuery |-> FALSE],
        [tenantId |-> <<>>, chatbotId |-> <<"c">>, sessionId |-> <<"s">>,
         hasQuery |-> TRUE]}

\* the requests of one tenant's sessions
SessionRequests ==
  {req \in Requests : req.tenantId = <<"a">> /\ req.sessionId = <<"s">> /\ req.hasQuery}

\* the hits of a search: none, one of each score, one of every score
HitSets == {{}} \cup {{score} : score \in Scores} \cup {Scores}

ConversationHistoryKey_NoTenant(t, c, sid) == c \o <<":">> \o sid \o <<":", "history">>

\* `${tenantId}:${chatbotId}:${sessionId}:history`
ConversationHistoryKey(t, c, sid) ==
  t \o <<":">> \o c \o <<":">> \o sid \o <<":", "history">>

\* `${tenantId}-vectors`
IndexName(t) == t \o <<"-vectors">>

SessionKeys ==
  {ConversationHistoryKey(t, c, sid) : t \in TenantIds, c \in ChatbotIds, sid \in SessionIds}

\* getChatbotConfig: the item with Key {id, tenantId}, if any
GetChatbotConfig(t, c) == {item \in ChatbotTable : item.tenantId = t /\ item.id = c}

\* chatbotConfig.memoryDuration || 60
MemoryDuration(item) ==
  IF item.memoryDuration = 0 THEN defaultMemoryDuration ELSE item.memoryDuration

\* the session store: a key with no element or past its expiry is no key
\* a list of the session store: its length, the minute it expires at (-1: no
\* expiry set) and the minute of its last LPUSH (-1: never written)
NoKey == [turns |-> 0, expireAt |-> -1, writtenAt |-> -1]

Live(entry, now) ==
  entry.turns > 0 /\ (entry.expireAt = -1 \/ now < entry.expireAt)

LRange(entry, now) == IF Live(entry, now) THEN entry.turns ELSE 0

LPush(entry, now) ==
  IF Live(entry, now) THEN [entry EXCEPT !.turns = @ + 1, !.writtenAt = now]
  ELSE [turns |-> 1, expireAt |-> -1, writtenAt |-> now]

\* EXPIRE key (minutes * 60) seconds
Expire(entry, now, minutes) ==
  IF Live(entry, now) THEN [entry EXCEPT !.expireAt = now + minutes] ELSE entry

\* `if (score > 0.5)`
Retained(score) == score > scoreThreshold

AfterSearchFailure_Rethrown == "error"

\* the catch of searchRelevantContent returns the empty context
AfterSearchFailure == "generate"

\* the catch of generateResponse returns the apology
AfterGenerationFailure == "apology"

ChatKey == ConversationHistoryKey(chatReq.tenantId, chatReq.chatbotId, chatReq.sessionId)

ChatConfig == CHOOSE item \in GetChatbotConfig(chatReq.tenantId, chatReq.chatbotId) : TRUE

\* the outer catch: statusCode 500 and an error body
ChatFails(who) ==
  /\ chatPc' = "done"
  /\ chatResult' = [statusCode |-> 500, hasResponse |-> FALSE]
  /\ chatFailed' = chatFailed \cup {who}

\* the tenant a session key or an index name belongs to: what precedes the
\* first ":" of the key, what precedes the "-vectors" of the name
RECURSIVE UpToColon(_)
UpToColon(str) ==
  IF str = <<>> \/ Head(str) = ":" THEN <<>> ELSE <<Head(str)>> \o UpToColon(Tail(str))

OwnerOf(kind, name) ==
  IF kind = "session" THEN UpToColon(name) ELSE SubSeq(name, 1, Len(name) - 1)

Used(kind, name) ==
  chatAccess \cup {[caller |-> chatReq.tenantId, kind |-> kind, owner |-> OwnerOf(kind, name)]}

\* a call starts: the request is parsed and checked
ChatStart(req, dt) ==
  /\ chatPc \in {"idle", "done"}
  /\ chatCalls' = chatCalls + 1
  /\ chatNow' = chatNow + dt
  /\ chatReq' = req
  /\ chatRead' = 0
  /\ chatHits' = {}
  /\ chatSources' = {}
  /\ chatResponse' = ""
  /\ chatFailed' = {}
  /\ IF ~req.hasQuery \/ req.tenantId = <<>>
     THEN /\ chatPc' = "done"
          /\ chatResult' = [statusCode |-> 400, hasResponse |-> FALSE]
     ELSE /\ chatPc' = "config"
          /\ chatResult' = NoResult
  /\ UNCHANGED <<chatRedis, chatAccess, chatLast>>
  /\ UNCHANGED chatRest

\* getChatbotConfig: null on an error and when there is no such item
ChatGetConfig(ok) ==
  /\ chatPc = "config"
  /\ IF ok /\ GetChatbotConfig(chatReq.tenantId, chatReq.chatbotId) # {}
     THEN /\ chatPc' = "history"
          /\ UNCHANGED chatResult
     ELSE /\ chatPc' = "done"
          /\ chatResult' = [statusCode |-> 404, hasResponse |-> FALSE]
  /\ chatFailed' = IF ok THEN chatFailed ELSE chatFailed \cup {"config"}
  /\ UNCHANGED <<chatNow, chatCalls, chatReq, chatRedis, chatRead, chatHits, chatSources,
                 chatResponse, chatAccess, chatLast>>
  /\ UNCHANGED chatRest

\* getRedisClient and redis.lrange(conversationHistoryKey, 0, -1)
ChatReadHistory(ok) ==
  /\ chatPc = "history"
  /\ IF ok
     THEN /\ chatRead' = LRange(chatRedis[ChatKey], chatNow)
          /\ chatAccess' = Used("session", ChatKey)
          /\ chatPc' = "embed"
          /\ UNCHANGED <<chatResult, chatFailed>>
     ELSE /\ ChatFails("sessionRead")
          /\ UNCHANGED <<chatRead, chatAccess>>
  /\ UNCHANGED <<chatNow, chatCalls, chatReq, chatRedis, chatHits, chatSources,
                 chatResponse, chatLast>>
  /\ UNCHANGED chatRest

\* searchRelevantContent: the invocation of the embedding function
ChatEmbedQuery(ok) ==
  /\ chatPc = "embed"
  /\ IF ok
     THEN /\ chatPc' = "search"
          /\ UNCHANGED <<chatResult, chatFailed>>
     ELSE IF AfterSearchFailure = "generate"
          THEN /\ chatPc' = "generate"
               /\ chatFailed' = chatFailed \cup {"embedding"}
               /\ UNCHANGED chatResult
          ELSE ChatFails("embedding")
  /\ UNCHANGED <<chatNow, chatCalls, chatReq, chatRedis, chatRead, chatHits, chatSources,
                 chatResponse, chatAccess, chatLast>>
  /\ UNCHANGED chatRest

\* searchRelevantContent: the k-NN query on the tenant's index and the
\* filter of its hits
ChatSearch(ok, hits) ==
  /\ chatPc = "search"
  /\ chatAccess' = Used("index", IndexName(chatReq.tenantId))
  /\ IF ok
     THEN /\ chatHits' = hits
          /\ chatSources' = {score \in hits : Retained(score)}
          /\ chatPc' = "generate"
          /\ UNCHANGED <<chatResult, chatFailed>>
     ELSE /\ UNCHANGED <<chatHits, chatSources>>
          /\ IF AfterSearchFailure = "generate"
             THEN /\ chatPc' = "generate"
                  /\ chatFailed' = chatFailed \cup {"search"}
                  /\ UNCHANGED chatResult
             ELSE ChatFails("search")
  /\ UNCHANGED <<chatNow, chatCalls, chatReq, chatRedis, chatRead, chatResponse, chatLast>>
  /\ UNCHANGED chatRest

\* buildPromptWithContext and generateResponse
ChatGenerate(ok) ==
  /\ chatPc = "generate"
  /\ IF ok
     THEN /\ chatResponse' = "generated"
          /\ chatPc' = "pushUser"
          /\ UNCHANGED <<chatResult, chatFailed>>
     ELSE IF AfterGenerationFailure = "apology"
          THEN /\ chatResponse' = "apology"
               /\ chatPc' = "pushUser"
               /\ chatFailed' = chatFailed \cup {"generation"}
               /\ UNCHANGED chatResult
          ELSE /\ ChatFails("generation")
               /\ UNCHANGED chatResponse
  /\ UNCHANGED <<chatNow, chatCalls, chatReq, chatRedis, chatRead, chatHits, chatSources,
                 chatAccess, chatLast>>
  /\ UNCHANGED chatRest

\* redis.lpush of the user turn, then of the assistant turn
ChatPush(ok) ==
  /\ chatPc \in {"pushUser", "pushAssistant"}
  /\ IF ok
     THEN /\ chatRedis' = [chatRedis EXCEPT ![ChatKey] = LPush(@, chatNow)]
          /\ chatAccess' = Used("session", ChatKey)
          /\ chatPc' = IF chatPc = "pushUser" THEN "pushAssistant" ELSE "expire"
          /\ UNCHANGED <<chatResult, chatFailed>>
     ELSE /\ ChatFails("sessionWrite")
          /\ UNCHANGED <<chatRedis, chatAccess>>
  /\ UNCHANGED <<chatNow, chatCalls, chatReq, chatRead, chatHits, chatSources,
                 chatResponse, chatLast>>
  /\ UNCHANGED chatRest

\* redis.expire(conversationHistoryKey, memoryDuration * 60)
ChatExpire(ok) ==
  /\ chatPc = "expire"
  /\ IF ok
     THEN /\ chatRedis' = [chatRedis EXCEPT
                             ![ChatKey] = Expire(@, chatNow, MemoryDuration(ChatConfig))]
          /\ chatPc' = "record"
          /\ UNCHANGED <<chatResult, chatFailed>>
     ELSE /\ ChatFails("expiry")
          /\ UNCHANGED chatRedis
  /\ UNCHANGED <<chatNow, chatCalls, chatReq, chatRead, chatHits, chatSources,
                 chatResponse, chatAccess, chatLast>>
  /\ UNCHANGED chatRest

\* recordQuery, which swallows its error, and the 200 response
ChatRecordAndReturn(ok) ==
  /\ chatPc = "record"
  /\ chatPc' = "done"
  /\ chatResult' = [statusCode |-> 200, hasResponse |-> TRUE]
  /\ chatFailed' = IF ok THEN chatFailed ELSE chatFailed \cup {"analytics"}
  /\ chatLast' = [chatLast EXCEPT ![ChatKey] = chatNow]
  /\ UNCHANGED <<chatNow, chatCalls, chatReq, chatRedis, chatRead, chatHits, chatSources,
                 chatResponse, chatAccess>>
  /\ UNCHANGED chatRest

InitChat ==
  /\ ChunkIdle
  /\ CrawlIdle
  /\ OrchIdle
  /\ GenIdle
  /\ StIdle
  /\ DocIdle
  /\ TextIdle
  /\ WriterIdle
  /\ TurnIdle
  /\ ExecIdle
  /\ chatPc = "idle"
  /\ chatNow = 0
  /\ chatCalls = 0
  /\ chatReq = NoRequest
  /\ chatRedis = [k \in SessionKeys |-> NoKey]
  /\ chatRead = 0
  /\ chatHits = {}
  /\ chatSources = {}
  /\ chatResponse = ""
  /\ chatResult = NoResult
  /\ chatFailed = {}
  /\ chatAccess = {}
  /\ chatLast = [k \in SessionKeys |-> -1]

NextChat ==
  \/ /\ chatCalls < MaxCalls
     /\ \E req \in Requests : ChatStart(req, 1)
  \/ \E ok \in BOOLEAN : ChatGetConfig(ok)
  \/ \E ok \in BOOLEAN : ChatReadHistory(ok)
  \/ \E ok \in BOOLEAN : ChatEmbedQuery(ok)
  \/ \E ok \in BOOLEAN, hits \in HitSets : ChatSearch(ok, hits)
  \/ \E ok \in BOOLEAN : ChatGenerate(ok)
  \/ \E ok \in BOOLEAN : ChatPush(ok)
  \/ \E ok \in BOOLEAN : ChatExpire(ok)
  \/ \E ok \in BOOLEAN : ChatRecordAndReturn(ok)

SpecChat == InitChat /\ [][NextChat]_vars

\* the calls of one tenant's sessions over time, the session store being the
\* only collaborator that fails
NextSession ==
  \/ /\ chatCalls < MaxSessionCalls
     /\ \E req \in SessionRequests, dt \in TimeSteps : ChatStart(req, dt)
  \/ ChatGetConfig(TRUE)
  \/ \E ok \in BOOLEAN : ChatReadHistory(ok)
  \/ ChatEmbedQuery(TRUE)
  \/ ChatSearch(TRUE, {})
  \/ ChatGenerate(TRUE)
  \/ \E ok \in BOOLEAN : ChatPush(ok)
  \/ \E ok \in BOOLEAN : ChatExpire(ok)
  \/ ChatRecordAndReturn(TRUE)

SpecSession == InitChat /\ [][NextSession]_vars

ChatAnswered == chatPc = "done" /\ chatResult.statusCode \notin {400, 404}

\* C13: after a search, a hit is kept in the context and in the sources
\* exactly when its score is at or above the threshold.
C13_KeptIffAtOrAboveThreshold ==
  \A score \in chatHits : score \in chatSources <=> score >= scoreThreshold

\* C14: a call that has read the session's history has read no turn when
\* the last turn of the session was written more than the memory duration
\* before it, and at least the two turns of the previous call that returned
\* 200 on the session when that call was made less than the memory duration
\* before it.
C14_MemoryClearedAfterDuration ==
  chatPc = "embed" =>
    /\ (chatRedis[ChatKey].writtenAt >= 0
          /\ chatNow - chatRedis[ChatKey].writtenAt > MemoryDuration(ChatConfig))
         => chatRead = 0
    /\ (chatLast[ChatKey] >= 0
          /\ chatNow - chatLast[ChatKey] < MemoryDuration(ChatConfig))
         => chatRead >= 2

\* C15: a call in which the query embedding or the search failed goes on
\* with no hit, an empty context and empty sources; one in which the
\* generation failed answers with the apology; and a call in which nothing
\* but these failed returns 200 with a response.
C15_DegradesInsteadOfFailing ==
  /\ chatFailed \cap {"embedding", "search"} # {} =>
       /\ chatSources = {}
       /\ chatHits = {}
       /\ chatPc \in {"generate", "pushUser", "pushAssistant", "expire", "record", "done"}
  /\ ("generation" \in chatFailed /\ chatPc # "done") => chatResponse = "apology"
  /\ (chatPc = "done" /\ chatFailed # {}
        /\ chatFailed \subseteq {"embedding", "search", "generation"}) =>
       /\ chatResult = [statusCode |-> 200, hasResponse |-> TRUE]
       /\ "generation" \in chatFailed => chatResponse = "apology"

\* the search and the generation of one call failed
C15_Witness ==
  /\ chatPc = "done"
  /\ chatFailed = {"search", "generation"}
  /\ chatResult.statusCode = 200
  /\ chatResponse = "apology"

\* C16: a call for an existing chatbot in which at most one collaborator
\* failed returns 200 with a response.
C16_AlwaysAResponse ==
  (ChatAnswered /\ Cardinality(chatFailed) <= 1) =>
    chatResult = [statusCode |-> 200, hasResponse |-> TRUE]

DocUrls ==
  {"s3://k/t1/d", "s3://k/t2/d", "s3://k/t12/d", "s3://k/t1/../t2/d", "s3://k",
   "s3://", "s3:///t1/d",
   "k/t1/d", "k/t2/d", "k/t1/../t2/d", "t1/d",
   "missing-doc-id", "doc1", "doc2", "doc3"}

\* a string as the sequence of its characters
Chars(s) ==
  CASE s = "t1" -> <<"t", "1">>
    [] s = "t1/d" -> <<"t", "1", "/", "d">>
    [] s = "t2/d" -> <<"t", "2", "/", "d">>
    [] s = "s3://k/t1/d" -> <<"s", "3", ":", "/", "/", "k", "/", "t", "1", "/", "d">>
    [] s = "s3://k/t2/d" -> <<"s", "3", ":", "/", "/", "k", "/", "t", "2", "/", "d">>
    [] s = "s3://k/t12/d" -> <<"s", "3", ":", "/", "/", "k", "/", "t", "1", "2", "/", "d">>
    [] s = "s3://k/t1/../t2/d" -> <<"s", "3", ":", "/", "/", "k", "/", "t", "1", "/", ".", ".", "/", "t", "2", "/", "d">>
    [] s = "s3://k" -> <<"s", "3", ":", "/", "/", "k">>
    [] s = "s3://" -> <<"s", "3", ":", "/", "/">>
    [] s = "s3:///t1/d" -> <<"s", "3", ":", "/", "/", "/", "t", "1", "/", "d">>
    [] s = "k/t1/d" -> <<"k", "/", "t", "1", "/", "d">>
    [] s = "k/t2/d" -> <<"k", "/", "t", "2", "/", "d">>
    [] s = "k/t1/../t2/d" -> <<"k", "/", "t", "1", "/", ".", ".", "/", "t", "2", "/", "d">>
    [] s = "missing-doc-id" -> <<"m", "i", "s", "s", "i", "n", "g", "-", "d", "o", "c", "-", "i", "d">>
    [] s = "doc1" -> <<"d", "o", "c", "1">>
    [] s = "doc2" -> <<"d", "o", "c", "2">>
    [] s = "doc3" -> <<"d", "o", "c", "3">>
    [] s = "docs" -> <<"d", "o", "c", "s">>

\* process.env.DOCUMENT_BUCKET
DocumentBucket == Chars("docs")

\* the metadata table, keyed by id and tenantId: documents of the tenant
\* stored under its own prefix, under another tenant's prefix and without
\* an s3Key, and a document of another tenant
MetadataTable ==
  {[id |-> "doc1", tenantId |-> "t1", s3Key |-> Chars("t1/d")],
   [id |-> "doc2", tenantId |-> "t1", s3Key |-> Chars("t2/d")],
   [id |-> "doc3", tenantId |-> "t1", s3Key |-> Undefined],
   [id |-> "missing-doc-id", tenantId |-> "t2", s3Key |-> Chars("t2/d")]}

\* headObject.ContentType, and the extraction method chosen for it
ContentTypes == {"application/pdf", "image/png", "application/msword", "text/plain",
                 "application/zip"}

ExtractionMethod(contentType) ==
  CASE contentType = "application/pdf" -> "pdf"
    [] contentType = "image/png" -> "image"
    [] contentType = "application/msword" -> "office"
    [] contentType = "text/plain" -> "text"
    [] OTHER -> "unsupported"

StartsWith(s, prefix) ==
  Len(s) >= Len(prefix) /\ SubSeq(s, 1, Len(prefix)) = prefix

Includes(s, c) == \E k \in DOMAIN s : s[k] = c

IndexOf(s, c) ==
  IF Includes(s, c)
  THEN CHOOSE k \in DOMAIN s : s[k] = c /\ \A j \in 1..(k - 1) : s[j] # c
  ELSE 0

Drop(s, n) == SubSeq(s, n + 1, Len(s))

\* s.split(c)
RECURSIVE SplitOn(_, _)
SplitOn(s, c) ==
  IF ~Includes(s, c) THEN <<s>>
  ELSE <<SubSeq(s, 1, IndexOf(s, c) - 1)>> \o SplitOn(Drop(s, IndexOf(s, c)), c)

\* parts.join(c)
RECURSIVE JoinWith(_, _)
JoinWith(parts, c) ==
  IF Len(parts) = 0 THEN <<>>
  ELSE IF Len(parts) = 1 THEN parts[1]
  ELSE parts[1] \o <<c>> \o JoinWith(Tail(parts), c)

S3Scheme == Chars("s3://")

\* the URL parser skips every slash between the scheme of an https URL and
\* its host
RECURSIVE SkipSlashes(_)
SkipSlashes(s) ==
  IF Len(s) > 0 /\ s[1] = "/" THEN SkipSlashes(Tail(s)) ELSE s

\* ... and resolves the dot segments of its path
RECURSIVE PathSegments(_, _)
PathSegments(segs, out) ==
  IF Len(segs) = 0 THEN out
  ELSE LET seg == Head(segs)
           closing == IF Len(segs) = 1 THEN << <<>> >> ELSE <<>>
       IN  IF seg = <<".", ".">>
           THEN PathSegments(Tail(segs),
                             (IF Len(out) > 0 THEN SubSeq(out, 1, Len(out) - 1) ELSE out)
                               \o closing)
           ELSE IF seg = <<".">>
           THEN PathSegments(Tail(segs), out \o closing)
           ELSE PathSegments(Tail(segs), Append(out, seg))

\* new URL(url.replace('s3://', 'https://')) for a url that starts with s3://
ParseS3Url(u) ==
  LET rest == SkipSlashes(Drop(u, Len(S3Scheme)))
      k == IndexOf(rest, "/")
      host == IF k = 0 THEN rest ELSE SubSeq(rest, 1, k - 1)
      path == IF k = 0 THEN <<>> ELSE Drop(rest, k)
  IN  IF host = <<>>
      THEN [valid |-> FALSE, hostname |-> <<>>, pathname |-> <<>>]
      ELSE [valid |-> TRUE, hostname |-> host,
            pathname |-> <<"/">> \o JoinWith(PathSegments(SplitOn(path, "/"), <<>>), "/")]

\* dynamoDB.get with the Key {id, tenantId}
FindDocument_AnyTenant(id, tenantId) == {item \in MetadataTable : item.id = id}

FindDocument(id, tenantId) ==
  {item \in MetadataTable : item.id = id /\ item.tenantId = tenantId}

\* the ownership test: documentKey.startsWith(`${tenantId}/`)
OwnsKey_NoSlash(key, tenantId) == StartsWith(key, Chars(tenantId))

OwnsKey(key, tenantId) == StartsWith(key, Chars(tenantId) \o <<"/">>)

DocUrl == event.dataSources[1].url

\* the Task is ready to invoke the function (again)
DocInvocable ==
  /\ InMap
  /\ branch[1].state = "ProcessDocument"
  /\ docPc \in {"idle", "thrown"}
  /\ docInvocations = branch[1].retries

DocStart ==
  /\ DocInvocable
  /\ docPc' = "resolve"
  /\ docInvocations' = docInvocations + 1
  /\ docBucket' = Unresolved
  /\ docKey' = Unresolved
  /\ docMethod' = ""
  /\ docRaised' = ""
  /\ docError' = ""
  /\ UNCHANGED docReads
  /\ UNCHANGED docRest

\* the invocation fails before the function runs
DocInvokeFails(err) ==
  /\ DocInvocable
  /\ docPc' = "thrown"
  /\ docError' = err
  /\ docInvocations' = docInvocations + 1
  /\ UNCHANGED <<docBucket, docKey, docMethod, docReads, docRaised>>
  /\ UNCHANGED docRest

\* a throw inside the try block
DocRaise(err) ==
  /\ docPc' = "catch"
  /\ docRaised' = err

\* the bucket and the key of the locator: an s3:// URL, a bucket/key path,
\* or the id of a document of the tenant in the metadata table
ResolveLocator(url, tenantId, getOk) ==
  LET u == Chars(url)
      parsed == ParseS3Url(u)
      parts == SplitOn(u, "/")
      items == FindDocument(url, tenantId)
      Resolved(bucket, key) == [error |-> "", bucket |-> bucket, key |-> key]
      Thrown(err) == [error |-> err, bucket |-> Unresolved, key |-> Unresolved]
  IN  IF StartsWith(u, S3Scheme)
      THEN IF parsed.valid
           THEN Resolved(parsed.hostname, Drop(parsed.pathname, 1))
           ELSE Thrown("TypeError")
      ELSE IF Includes(u, "/")
      THEN Resolved(parts[1], JoinWith(Tail(parts), "/"))
      ELSE IF ~getOk THEN Thrown("DynamoDBError")
      ELSE IF items = {} THEN Thrown("NotFound")
      ELSE Resolved(DocumentBucket, (CHOOSE item \in items : TRUE).s3Key)

\* the resolution of every locator of the model, computed once
DocTenants == {"t1"}

Resolution ==
  [url \in DocUrls, tenantId \in DocTenants, getOk \in BOOLEAN |->
     ResolveLocator(url, tenantId, getOk)]

DocResolve(getOk) ==
  /\ docPc = "resolve"
  /\ docBucket' = Resolution[DocUrl, event.tenantId, getOk].bucket
  /\ docKey' = Resolution[DocUrl, event.tenantId, getOk].key
  /\ docRaised' = Resolution[DocUrl, event.tenantId, getOk].error
  /\ docPc' = IF Resolution[DocUrl, event.tenantId, getOk].error = ""
              THEN "check" ELSE "catch"
  /\ UNCHANGED <<docMethod, docReads, docError, docInvocations>>
  /\ UNCHANGED docRest

\* the ownership check; startsWith of an s3Key the item does not hold is a
\* TypeError
DocCheckOwner ==
  /\ docPc = "check"
  /\ IF docKey = Undefined THEN DocRaise("TypeError")
     ELSE IF ~OwnsKey(docKey, event.tenantId) THEN DocRaise("AccessDenied")
     ELSE docPc' = "head" /\ UNCHANGED docRaised
  /\ UNCHANGED <<docBucket, docKey, docMethod, docReads, docError, docInvocations>>
  /\ UNCHANGED docRest

DocRead(op) == docReads' = docReads \cup {[op |-> op, bucket |-> docBucket, key |-> docKey]}

\* s3.headObject and the choice of the extraction method
DocHead(ok, contentType) ==
  /\ docPc = "head"
  /\ DocRead("headObject")
  /\ IF ~ok THEN DocRaise("S3Error") /\ UNCHANGED docMethod
     ELSE IF ExtractionMethod(contentType) = "unsupported"
     THEN DocRaise("Unsupported") /\ UNCHANGED docMethod
     ELSE /\ docMethod' = ExtractionMethod(contentType)
          /\ docPc' = "extract"
          /\ UNCHANGED docRaised
  /\ UNCHANGED <<docBucket, docKey, docError, docInvocations>>
  /\ UNCHANGED docRest

\* s3.getObject for a text; for the other methods the start of
\* extractWithTextract: startDocumentTextDetection
DocExtract(ok) ==
  /\ docPc = "extract"
  /\ DocRead(IF docMethod = "text" THEN "getObject" ELSE "startDocumentTextDetection")
  /\ IF ok
     THEN /\ docPc' = IF docMethod = "text" THEN "store" ELSE "wait"
          /\ UNCHANGED docRaised
     ELSE DocRaise(IF docMethod = "text" THEN "S3Error" ELSE "TextractError")
  /\ UNCHANGED <<docBucket, docKey, docMethod, docError, docInvocations>>
  /\ UNCHANGED docRest

\* the statuses getDocumentTextDetection reports for a job
JobStatuses == {"IN_PROGRESS", "SUCCEEDED", "FAILED", "PARTIAL_SUCCESS"}

\* where extractWithTextract goes after a poll that reported jobStatus: the
\* loop runs for as long as the job is in progress
AfterPoll(jobStatus) ==
  CASE jobStatus = "IN_PROGRESS" -> "wait"
    [] jobStatus = "SUCCEEDED" -> "store"
    [] OTHER -> "catch"

\* the top of the polling loop: the timer of one second
DocWait ==
  /\ docPc = "wait"
  /\ docPc' = "poll"
  /\ UNCHANGED <<docBucket, docKey, docMethod, docReads, docRaised, docError,
                 docInvocations>>
  /\ UNCHANGED docRest

\* getDocumentTextDetection and what follows it in the loop; a job that
\* succeeded is assembled by assembleTextractResponse, which fetches the
\* further pages of the result
DocPoll(ok, jobStatus, assembled) ==
  /\ docPc = "poll"
  /\ DocRead("getDocumentTextDetection")
  /\ IF ~ok \/ (jobStatus = "SUCCEEDED" /\ ~assembled) THEN DocRaise("TextractError")
     ELSE IF AfterPoll(jobStatus) = "catch"
     THEN DocRaise(IF jobStatus = "FAILED" THEN "TextractJobFailed"
                   ELSE "UnexpectedJobStatus")
     ELSE docPc' = AfterPoll(jobStatus) /\ UNCHANGED docRaised
  /\ UNCHANGED <<docBucket, docKey, docMethod, docError, docInvocations>>
  /\ UNCHANGED docRest

\* s3.putObject of the text, dynamoDB.put of the source item, and the return
DocStore(putOk, itemOk) ==
  /\ docPc = "store"
  /\ IF ~putOk THEN DocRaise("S3Error")
     ELSE IF ~itemOk THEN DocRaise("DynamoDBError")
     ELSE docPc' = "returned" /\ UNCHANGED docRaised
  /\ UNCHANGED <<docBucket, docKey, docMethod, docReads, docError, docInvocations>>
  /\ UNCHANGED docRest

\* the catch block: the message to the dead-letter queue, then the rethrow;
\* a failed send throws in its turn
DocCatch(dlqOk) ==
  /\ docPc = "catch"
  /\ docPc' = "thrown"
  /\ docError' = IF dlqOk THEN docRaised ELSE "SqsError"
  /\ UNCHANGED <<docBucket, docKey, docMethod, docReads, docRaised, docInvocations>>
  /\ UNCHANGED docRest

DocInvoked ==
  /\ branch[1].state = "ProcessDocument"
  /\ docInvocations = branch[1].retries + 1

\* the Task state ProcessDocument takes the function's result
DocTaskReturns ==
  /\ docPc = "returned"
  /\ DocInvoked
  /\ BranchTaskSucceeds(1)

\* ... or its error; no error the function throws bears a name the Retry
\* lists
DocTaskThrows ==
  /\ docPc = "thrown"
  /\ DocInvoked
  /\ BranchTaskFails(1, IF docError \in RetryErrorsOf("ProcessDocument")
                        THEN docError ELSE "Error")

\* the states of the iteration after ProcessDocument
AfterDocSucceeds ==
  /\ InMap
  /\ branch[1].state # "ProcessDocument"
  /\ BranchTaskSucceeds(1)

AfterDocFails(err) ==
  /\ InMap
  /\ branch[1].state # "ProcessDocument"
  /\ BranchTaskFails(1, err)

\* the executions over one document source, a source without url among them
DocEvents ==
  {MakeEvent([tenantId |-> t, tenantLookup |-> "found"], TRUE,
             <<Source("document", u, "n")>>, TRUE, ValidConfig) :
     t \in DocTenants, u \in DocUrls \cup {""}}

InitDoc ==
  /\ ChunkIdle
  /\ CrawlIdle
  /\ InitOrch(DocEvents)
  /\ LambdaIdle

NextDoc ==
  \/ ValidateInputStep
  \/ CheckValidationResultStep
  \/ \E putOk \in BOOLEAN : ValidationErrorStep(putOk)
  \/ BranchChoice(1)
  \/ DocStart
  \/ \E err \in RetryErrorsOf("ProcessDocument") : DocInvokeFails(err)
  \/ \E getOk \in BOOLEAN : DocResolve(getOk)
  \/ DocCheckOwner
  \/ \E ok \in BOOLEAN, contentType \in ContentTypes : DocHead(ok, contentType)
  \/ \E ok \in BOOLEAN : DocExtract(ok)
  \/ DocWait
  \/ \E ok \in BOOLEAN, jobStatus \in JobStatuses, assembled \in BOOLEAN :
       DocPoll(ok, jobStatus, assembled)
  \/ \E putOk \in BOOLEAN, itemOk \in BOOLEAN : DocStore(putOk, itemOk)
  \/ \E dlqOk \in BOOLEAN : DocCatch(dlqOk)
  \/ DocTaskReturns
  \/ DocTaskThrows
  \/ AfterDocSucceeds
  \/ \E err \in ErrorNames : AfterDocFails(err)
  \/ \E putOk \in BOOLEAN : BranchErrorHandled(1, putOk)
  \/ BranchPass(1)
  \/ MapCompletes
  \/ TenantTaskSucceeds
  \/ \E err \in ErrorNames : TenantTaskFails(err)
  \/ \E putOk \in BOOLEAN : TenantErrorHandled(putOk)

SpecDoc == InitDoc /\ [][NextDoc]_vars

\* the state machine always takes the next transition of a running
\* execution, and a started invocation runs to its end
FairSpecDoc == SpecDoc /\ WF_vars(NextDoc)

DocPrefix == Chars(event.tenantId) \o <<"/">>

\* C17: no document object is read under a key outside the tenant's prefix;
\* once the locator (s3:// URL, bucket/key path or document id) has resolved
\* to such a key, the function goes from the ownership check to its catch
\* block with the access-denied error, having read nothing, and throws that
\* error (the error of the dead-letter send when that send fails), and the
\* iteration goes to DocumentError without ExtractText.
C17_ForeignKeyDenied ==
  /\ \A r \in docReads : StartsWith(r.key, DocPrefix)
  /\ (docKey \notin {Unresolved, Undefined} /\ ~StartsWith(docKey, DocPrefix)) =>
       /\ docPc \in {"check", "catch", "thrown"}
       /\ docPc # "check" => docRaised = "AccessDenied"
       /\ docPc = "thrown" => docError \in {"AccessDenied", "SqsError"}
       /\ docReads = {}
       /\ <<1, "ExtractText">> \notin executed
       /\ branch[1].state \in {"ProcessDocument", "DocumentError", "SourceProcessingFailed"}

\* an s3:// URL whose path leaves the tenant's prefix through a dot segment
C17_Witness ==
  /\ DocUrl = "s3://k/t1/../t2/d"
  /\ docKey = Chars("t2/d")
  /\ docPc = "thrown"
  /\ docError = "AccessDenied"
  /\ branch[1].state = "SourceProcessingFailed"

MissingDocScenario ==
  /\ DocUrl = "missing-doc-id"
  /\ ~\E item \in MetadataTable : item.id = DocUrl /\ item.tenantId = event.tenantId

TenantOrder == <<"ConfigureMemoryDuration", "UpdateMetadata", "ScheduleNextCrawl",
                 "AnalyzeResults", "NotifyCompletion">>

TenantHandlers == <<"MemoryConfigError", "MetadataError", "ScheduleError">>

Ran(st) == <<0, st>> \in executed

\* C20: the Map state is left for ConfigureMemoryDuration; a tenant-level
\* step that succeeds is followed by the next step of the order, and the
\* last one ends the execution; a failure of one of the first three steps
\* is retried or routed to the step's error handler, the execution still
\* running; the error handler is followed by the next step of the order,
\* which it always reaches; and no step has run before its predecessor.
C20_TenantStepsInOrder ==
  /\ [][/\ (pc = "ProcessDataSources" /\ pc' # pc) => pc' = TenantOrder[1]
        /\ \A k \in 1..5 :
             (pc = TenantOrder[k] /\ TenantTaskSucceeds) =>
               IF k < 5 THEN pc' = TenantOrder[k + 1] /\ runStatus' = "RUNNING"
               ELSE runStatus' = "SUCCEEDED"
        /\ \A k \in 1..3 :
             /\ (pc = TenantOrder[k] /\ \E err \in ErrorNames : TenantTaskFails(err)) =>
                  /\ pc' \in {TenantOrder[k], TenantHandlers[k]}
                  /\ runStatus' = "RUNNING"
                  /\ pc' = TenantOrder[k] => retries' = retries + 1
             /\ (pc = TenantHandlers[k] /\ (pc' # pc \/ runStatus' # runStatus)) =>
                  pc' = TenantOrder[k + 1] /\ runStatus' = "RUNNING"]_vars
  /\ [](\A k \in 1..4 : Ran(TenantOrder[k + 1]) => Ran(TenantOrder[k]))
  /\ [](\A k \in 1..3 : Ran(TenantHandlers[k]) => Ran(TenantOrder[k]))
  /\ [](retries <= MaxAttempts)
  /\ \A k \in 1..3 : (pc = TenantHandlers[k]) ~> (pc = TenantOrder[k + 1])

\* the first three steps all failed and the execution completed
C20_Witness ==
  /\ \A k \in 1..3 : Ran(TenantHandlers[k])
  /\ \A k \in 1..5 : Ran(TenantOrder[k])
  /\ runStatus = "SUCCEEDED"
  /\ Cardinality(DOMAIN branch) >= 1

(***************************************************************************)
(* Further properties of the execution of the state machine.               *)
(***************************************************************************)
\* C21: an execution fails as a whole at NotifyCompletion only.
C21_OnlyNotificationFailsRun ==
  runStatus = "FAILED" => pc = "NotifyCompletion"

TenantLevel == TenantTasks \cup TenantErrorStates

BranchAtEnd(i) ==
  /\ i \in DOMAIN branch
  /\ branch[i].ended
  /\ branch[i].state \in {"SourceProcessingSucceeded", "SourceProcessingFailed"}

\* C22: once the execution is at a tenant-level state, or has run one, the
\* iteration of every source has ended in SourceProcessingSucceeded or
\* SourceProcessingFailed, and no iteration moves afterwards.
C22_TenantStepsAfterAllBranches ==
  /\ []((pc \in TenantLevel \/ \E e \in executed : e[1] = 0 /\ e[2] \in TenantLevel)
          => \A i \in DOMAIN event.dataSources : BranchAtEnd(i))
  /\ [][(pc \in TenantLevel) => (branch' = branch)]_vars

\* ConfigureMemoryDuration has run after one iteration succeeded and
\* another failed
C22_Witness ==
  /\ pc = "UpdateMetadata"
  /\ Ran("ConfigureMemoryDuration")
  /\ Len(branch) = MaxSources
  /\ \E i, j \in DOMAIN branch :
       /\ branch[i].state = "SourceProcessingSucceeded"
       /\ branch[j].state = "SourceProcessingFailed"

TransientErrors == {"ServiceException", "TooManyRequestsException"}

\* C23: a failed invocation of a source stage is retried when its error is
\* a throttling or a service error and attempts are left, and goes to an
\* error handler of the iterator without retry otherwise.
C23_RetriesBothTransientKinds ==
  [][\A i \in DOMAIN branch, err \in ErrorNames :
       BranchTaskFails(i, err) =>
         IF err \in TransientErrors /\ branch[i].retries < MaxAttempts
         THEN /\ branch'[i].state = branch[i].state
              /\ branch'[i].retries = branch[i].retries + 1
         ELSE /\ branch'[i].state \in SourceErrorStates
              /\ (branch'[i].retries = 0)]_vars

\* C26: in an execution whose input ValidateInput found valid, every source
\* is of a type the Choice state knows and no iteration is at, or has run,
\* InvalidSourceType.
C26_NoInvalidTypeAfterValidation ==
  (Validated /\ validation.isValid) =>
    /\ \A i \in DOMAIN event.dataSources :
         DetermineSourceType(event.dataSources[i]) # "InvalidSourceType"
    /\ \A i \in DOMAIN branch :
         /\ branch[i].state # "InvalidSourceType"
         /\ <<i, "InvalidSourceType">> \notin executed

\* every iteration of a valid execution of mixed sources went past the
\* Choice state
C26_Witness ==
  /\ validation.isValid
  /\ Len(branch) = MaxSources
  /\ \A i \in DOMAIN branch : branch[i].state \in SourceTasks \ AdapterTasks
  /\ \E i, j \in DOMAIN branch : event.dataSources[i].type # event.dataSources[j].type

\* the invocations of the Task the iteration of source i is at: the retried
\* ones and the one under way
Invocations(i) == branch[i].retries + 1

\* C24 as stated: a source stage is invoked at most 3 times for one source.
C24_AtMostThreeInvocations ==
  \A i \in DOMAIN branch :
    branch[i].state \in SourceTasks => Invocations(i) <= MaxAttempts

\* C24: a source stage is invoked at most MaxAttempts + 1 times for one
\* source, the first invocation and MaxAttempts retries; when the last of
\* them fails, with a transient error or another, the error goes to an
\* error handler of the iterator.
C24_AtMostThreeRetries ==
  /\ [](\A i \in DOMAIN branch :
          branch[i].state \in SourceTasks => Invocations(i) <= MaxAttempts + 1)
  /\ [][\A i \in DOMAIN branch, err \in ErrorNames :
          (Invocations(i) = MaxAttempts + 1 /\ BranchTaskFails(i, err)) =>
            /\ branch'[i].state \in SourceErrorStates
            /\ branch'[i].failedAt = branch[i].state]_vars

\* the fourth invocation of StoreEmbeddings for one source and of
\* CrawlWebsite for another are under way
C24_Witness ==
  \E i, j \in DOMAIN branch :
    /\ branch[i].state = "StoreEmbeddings"
    /\ Invocations(i) = MaxAttempts + 1
    /\ branch[j].state = "CrawlWebsite"
    /\ Invocations(j) = MaxAttempts + 1

\* C27: an invocation of ProcessDocument that waits for a document-analysis
\* job leaves the polling loop, and the iteration leaves ProcessDocument.
AtProcessDocument == InMap /\ branch[1].state = "ProcessDocument"

C27_ExtractionNeverHangs ==
  /\ (docPc = "wait") ~> (docPc \notin {"wait", "poll"})
  /\ AtProcessDocument ~> ~AtProcessDocument

(***************************************************************************)
(* The iterator of ProcessDataSources taken alone: the Map state entered   *)
(* with items of any type.  The definition is deployed with whatever       *)
(* function ValidateInputFunctionArn names, and the routing inside the     *)
(* iterator does not depend on what that function rejected.                *)
(***************************************************************************)
ItemTypes == {"website", "api", "document", "ftp", ""}

IteratorEvents ==
  {MakeEvent([tenantId |-> "t1", tenantLookup |-> "found"], TRUE, srcs, TRUE, ValidConfig) :
     srcs \in UNION {[1..n -> {Source(t, "u", "n") : t \in ItemTypes}] : n \in 1..MaxSources}}

InitIterator ==
  /\ ChunkIdle
  /\ CrawlIdle
  /\ LambdaIdle
  /\ event \in IteratorEvents
  /\ validation = [isValid |-> TRUE, errors |-> {}]
  /\ pc = "ProcessDataSources"
  /\ runStatus = "RUNNING"
  /\ retries = 0
  /\ branch = [i \in DOMAIN event.dataSources |-> NewBranch]
  /\ executed = {<<0, "ValidateInput">>}
  /\ errorRecords = {}

NextIterator ==
  \/ \E i \in DOMAIN branch : BranchChoice(i)
  \/ \E i \in DOMAIN branch : BranchTaskSucceeds(i)
  \/ \E i \in DOMAIN branch, err \in ErrorNames : BranchTaskFails(i, err)
  \/ \E i \in DOMAIN branch, putOk \in BOOLEAN : BranchErrorHandled(i, putOk)
  \/ \E i \in DOMAIN branch : BranchPass(i)
  \/ MapCompletes

SpecIterator == InitIterator /\ [][NextIterator]_vars

UnrecognizedItems ==
  {i \in DOMAIN branch : event.dataSources[i].type \notin RecognizedTypes}

\* C25: an iteration over a source of an unrecognized type goes from
\* DetermineSourceType to InvalidSourceType and from there to
\* SourceProcessingFailed, where it ends with the status failed; no adapter,
\* ExtractText, GenerateEmbeddings or StoreEmbeddings is invoked for it.
C25_UnrecognizedTypeSkipsAllStages ==
  \A i \in UnrecognizedItems :
    /\ branch[i].state \in {"DetermineSourceType", "InvalidSourceType",
                            "SourceProcessingFailed"}
    /\ \A st \in SourceTasks : <<i, st>> \notin executed
    /\ branch[i].state = "SourceProcessingFailed" => <<i, "InvalidSourceType">> \in executed
    /\ branch[i].ended => branch[i].status = "failed"

\* a source of an unknown type has ended as failed beside a source of a
\* known type that went through its stages
C25_Witness ==
  /\ pc = "ProcessDataSources"
  /\ \E i \in UnrecognizedItems, j \in DOMAIN branch :
       /\ event.dataSources[i].type = "ftp"
       /\ branch[i].ended
       /\ branch[i].status = "failed"
       /\ <<i, "InvalidSourceType">> \in executed
       /\ <<j, "StoreEmbeddings">> \in executed

(***************************************************************************)
(* The concurrency of the crawler (SpecCrawl).                             *)
(***************************************************************************)
\* C28: at every moment of a crawl at most batchSize = 5 page fetches are in
\* flight; a batch starts at most 5 fetches, and it starts them only when no
\* fetch of an earlier batch is still in flight.
C28_AtMostFiveInFlight ==
  /\ [](Cardinality(inFlight) <= batchSize)
  /\ [][(fetched' # fetched)
          => (inFlight = {} /\ Len(fetched') - Len(fetched) <= batchSize)]_vars

\* the second batch of a level is in flight, after a first batch of five
C28_Witness ==
  /\ crawlPc = "await"
  /\ batchIndex = batchSize
  /\ Len(urlsToCrawl) > batchSize
  /\ inFlight # {}
  /\ Len(fetched) >= 1 + batchSize + Cardinality(inFlight)

(***************************************************************************)
(* The text clean-up of extract_text.js (SpecText).  The texts hold no '<' *)
(* and '>', so the HTML branch is not taken, and no character that         *)
(* String.prototype.normalize changes.                                     *)
(***************************************************************************)
MaxCleanLen == 5

CleanAlphabet == {"a", " ", NL}

\* String.prototype.replace(/[class]{minLen,}/g, replacement): every maximal
\* run of characters of the class that is at least minLen long is replaced
RECURSIVE RunLength(_, _)
RunLength(s, class) ==
  IF s # <<>> /\ Head(s) \in class THEN 1 + RunLength(Tail(s), class) ELSE 0

RECURSIVE ReplaceRuns(_, _, _, _)
ReplaceRuns(s, class, minLen, replacement) ==
  IF s = <<>> THEN <<>>
  ELSE LET n == RunLength(s, class)
       IN  IF n = 0
           THEN <<Head(s)>> \o ReplaceRuns(Tail(s), class, minLen, replacement)
           ELSE (IF n >= minLen THEN replacement ELSE SubSeq(s, 1, n))
                \o ReplaceRuns(SubSeq(s, n + 1, Len(s)), class, minLen, replacement)

\* cleanText: /\s+/g -> ' ', then /\n{3,}/g -> '\n\n', then trim
cleanText(t) ==
  LET spaced == ReplaceRuns(t, Whitespace, 1, <<" ">>)
      broken == ReplaceRuns(spaced, {NL}, 3, <<NL, NL>>)
  IN  Trim(broken)

InitText ==
  /\ ChunkIdle
  /\ CrawlIdle
  /\ OrchIdle
  /\ GenIdle
  /\ StIdle
  /\ ChatIdle
  /\ DocIdle
  /\ WriterIdle
  /\ TurnIdle
  /\ ExecIdle
  /\ cleanPc = "start"
  /\ rawText \in SeqsUpTo(CleanAlphabet, MaxCleanLen)
  /\ cleanedText = <<>>

\* extract_text.js line 83: text = cleanText(text)
CleanText ==
  /\ cleanPc = "start"
  /\ cleanedText' = cleanText(rawText)
  /\ cleanPc' = "done"
  /\ UNCHANGED rawText
  /\ UNCHANGED textRest

NextText == CleanText

SpecText == InitText /\ [][NextText]_vars

\* String.prototype.includes for a substring
IncludesText(s, sub) ==
  \E k \in 1..(Len(s) - Len(sub) + 1) : SubSeq(s, k, k + Len(sub) - 1) = sub

\* two or more newlines, and nothing else, between two characters that are
\* not whitespace
HasParagraphBreak(t) ==
  \E i, j \in DOMAIN t :
    /\ j >= i + 3
    /\ t[i] \notin Whitespace
    /\ t[j] \notin Whitespace
    /\ \A k \in (i + 1)..(j - 1) : t[k] = NL

\* C29: the cleaned text keeps the paragraph breaks: where the text holds a
\* run of two or more newlines between two words the cleaned text holds a
\* break of exactly two newlines, and it holds no run of three newlines and
\* no run of two spaces.
C29_ParagraphBreaksPreserved ==
  cleanPc = "done" =>
    /\ HasParagraphBreak(rawText) => IncludesText(cleanedText, <<NL, NL>>)
    /\ ~IncludesText(cleanedText, <<NL, NL, NL>>)
    /\ ~IncludesText(cleanedText, <<" ", " ">>)

(***************************************************************************)
(* Two invocations of store_embeddings.js for two sources of one tenant,   *)
(* running at the same time (SpecWriters).  Each holds at most             *)
(* bulkBatchSize embeddings, so that bulkInsertEmbeddings sends one        *)
(* request.                                                                *)
(***************************************************************************)
MaxWriterChunks == 2
MaxClock == 2

Writers == {1, 2}

WriterTenant == "t1"

\* `${tenantId}-${Date.now()}-${i + index}`: for one tenantId the text is
\* fixed by the two numbers and fixes them
DocId(tenantId, now, index) == <<tenantId, now, index>>

InitWriters ==
  /\ ChunkIdle
  /\ CrawlIdle
  /\ OrchIdle
  /\ GenIdle
  /\ StIdle
  /\ ChatIdle
  /\ DocIdle
  /\ TextIdle
  /\ TurnIdle
  /\ ExecIdle
  /\ wrPc = [w \in Writers |-> "check"]
  /\ wrNow = 0
  /\ wrCount \in [Writers -> 1..MaxWriterChunks]
  /\ wrIds = [w \in Writers |-> <<>>]
  /\ wrIndex = <<>>
  /\ wrWritten = {}
  /\ wrExists \in BOOLEAN
  /\ wrCreates = 0
  /\ wrError = [w \in Writers |-> ""]

\* a millisecond passes
WrTick ==
  /\ wrNow < MaxClock
  /\ wrNow' = wrNow + 1
  /\ UNCHANGED <<wrPc, wrCount, wrIds, wrIndex, wrWritten, wrExists, wrCreates, wrError>>
  /\ UNCHANGED writerRest

\* `if (!indexExists)` after checkIndexExists
AfterCheck(indexExists) == IF indexExists THEN "build" ELSE "create"

\* checkIndexExists: HEAD /<indexName>; 404 is false, any other failure is
\* thrown
WrCheck(w, ok) ==
  /\ wrPc[w] = "check"
  /\ IF ok
     THEN /\ wrPc' = [wrPc EXCEPT ![w] = AfterCheck(wrExists)]
          /\ UNCHANGED wrError
     ELSE /\ wrPc' = [wrPc EXCEPT ![w] = "failed"]
          /\ wrError' = [wrError EXCEPT ![w] = "RequestError"]
  /\ UNCHANGED <<wrNow, wrCount, wrIds, wrIndex, wrWritten, wrExists, wrCreates>>
  /\ UNCHANGED writerRest

\* createVectorIndex: PUT /<indexName>; OpenSearch refuses to create an
\* index that exists, and the rejected request is thrown
WrCreate(w, ok) ==
  /\ wrPc[w] = "create"
  /\ wrCreates' = wrCreates + 1
  /\ IF wrExists
     THEN /\ wrPc' = [wrPc EXCEPT ![w] = "failed"]
          /\ wrError' = [wrError EXCEPT ![w] = "resource_already_exists_exception"]
          /\ UNCHANGED wrExists
     ELSE IF ok
     THEN /\ wrExists' = TRUE
          /\ wrPc' = [wrPc EXCEPT ![w] = "build"]
          /\ UNCHANGED wrError
     ELSE /\ wrPc' = [wrPc EXCEPT ![w] = "failed"]
          /\ wrError' = [wrError EXCEPT ![w] = "RequestError"]
          /\ UNCHANGED wrExists
  /\ UNCHANGED <<wrNow, wrCount, wrIds, wrIndex, wrWritten>>
  /\ UNCHANGED writerRest

\* one round of batchEmbeddings.forEach: the docId of the next embedding
WrBuild(w) ==
  /\ wrPc[w] = "build"
  /\ LET index == Len(wrIds[w])
     IN  wrIds' = [wrIds EXCEPT ![w] = Append(@, DocId(WriterTenant, wrNow, index))]
  /\ wrPc' = [wrPc EXCEPT ![w] = IF Len(wrIds'[w]) = wrCount[w] THEN "send" ELSE "build"]
  /\ UNCHANGED <<wrNow, wrCount, wrIndex, wrWritten, wrExists, wrCreates, wrError>>
  /\ UNCHANGED writerRest

\* the index actions of one _bulk request: a document indexed under an _id
\* that exists replaces the one that was there
RECURSIVE IndexAll(_, _, _, _)
IndexAll(index, w, ids, k) ==
  IF k > Len(ids) THEN index
  ELSE IndexAll([id \in DOMAIN index \cup {ids[k]} |->
                   IF id = ids[k] THEN <<w, k - 1>> ELSE index[id]],
                w, ids, k + 1)

\* POST /_bulk with the batch (a rejected request writes nothing)
WrSend(w, ok) ==
  /\ wrPc[w] = "send"
  /\ IF ok
     THEN /\ wrPc' = [wrPc EXCEPT ![w] = "done"]
          /\ wrIndex' = IndexAll(wrIndex, w, wrIds[w], 1)
          /\ wrWritten' = wrWritten \cup {<<wrIds[w][k], w, k - 1>> : k \in DOMAIN wrIds[w]}
          /\ UNCHANGED wrError
     ELSE /\ wrPc' = [wrPc EXCEPT ![w] = "failed"]
          /\ wrError' = [wrError EXCEPT ![w] = "RequestError"]
          /\ UNCHANGED <<wrIndex, wrWritten>>
  /\ UNCHANGED <<wrNow, wrCount, wrIds, wrExists, wrCreates>>
  /\ UNCHANGED writerRest

NextWriters ==
  \/ WrTick
  \/ \E w \in Writers, ok \in BOOLEAN : WrCheck(w, ok)
  \/ \E w \in Writers, ok \in BOOLEAN : WrCreate(w, ok)
  \/ \E w \in Writers : WrBuild(w)
  \/ \E w \in Writers, ok \in BOOLEAN : WrSend(w, ok)

SpecWriters == InitWriters /\ [][NextWriters]_vars

\* C30: no two chunk records, of one source or of two, are written to the
\* tenant index under the same document id; so the index holds every record
\* written.
C30_UniqueDocumentIds ==
  /\ \A r1, r2 \in wrWritten : r1[1] = r2[1] => r1 = r2
  /\ Cardinality(DOMAIN wrIndex) = Cardinality(wrWritten)


\* C31: the two invocations issue at most one create-index request between
\* them, and neither fails because the index it went to create exists.
C31_AtMostOneCreateRequest ==
  /\ wrCreates <= 1
  /\ \A w \in Writers : wrError[w] # "resource_already_exists_exception"

(***************************************************************************)
(* Further properties of the StoreEmbeddings stage (SpecStore).            *)
(***************************************************************************)
\* C32: when the call has failed because a bulk batch reported failed
\* items, none of the documents the call sent is in the tenant index.
C32_FailedStoreLeavesNothing ==
  (stPc = "thrown" /\ stBatch = BatchCount(stCount) /\ BulkErrors(stResults))
    => stIndexed = 0


\* the invocation read zero embeddings and none of its requests failed
ZeroChunkCall ==
  /\ stCount = 0
  /\ <<"getObject", "ok">> \in stCalls
  /\ \A c \in stCalls : c[2] \in {"ok", "exists", "404"}

StEnded == stPc \in {"returned", "thrown"}

\* with the tenant index in place such an invocation returns vectorCount 0
ZeroChunksWithIndexReturn ==
  (ZeroChunkCall /\ StEnded /\ <<"head", "exists">> \in stCalls)
    => (stPc = "returned" /\ stVectorCount = 0)

\* C33: a source of zero embeddings ends the same way whether the tenant
\* index exists or not: the invocation that does not find the index returns
\* vectorCount 0, as the one that finds it does.
C33_ZeroChunksSameOutcome ==
  (ZeroChunkCall /\ StEnded /\ <<"head", "404">> \in stCalls)
    => (stPc = "returned" /\ stVectorCount = 0)

(***************************************************************************)
(* The turns of one session (SpecTurnsSeq, SpecTurns): the calls of        *)
(* chatbot_query.js on one conversationHistoryKey, with the list itself.   *)
(* A turn is [role, call, n], n being its number in the order of writing   *)
(* (the code stores Date.now()); the turns of earlier calls have call 0.   *)
(* The key does not expire during the calls.                               *)
(***************************************************************************)
MaxTurnCalls == 2
historyLimit == 10

TurnCalls == 1..MaxTurnCalls

\* the sessions the calls may find: empty, or written by earlier calls
TurnBases == {0, 8, 9, 12}

\* the queries of the requests and the responses of the model
TurnQueries == {<<"h", "i">>, <<"w", "h", "o">>}
TurnResponses == {<<"o", "k">>, <<"s", "o", "r", "r", "y">>}

Turn(role, call, n) == [role |-> role, call |-> call, n |-> n]

\* the list after earlier calls: turn j of m is at position m - j + 1
EarlierTurns(m) ==
  [p \in 1..m |-> LET j == m - p + 1
                  IN  Turn(IF j % 2 = 1 THEN "user" ELSE "assistant", 0, j)]

\* Array.prototype.reverse
ReverseSeq(s) == [k \in 1..Len(s) |-> s[Len(s) - k + 1]]

\* redis LPUSH: the element becomes the head of the list
LPushTurn(list, role, call) == <<Turn(role, call, Len(list) + 1)>> \o list

Label(role) == IF role = "user" THEN "Human" ELSE "Assistant"

\* the lines are written in the order of the list
HistoryBlock_NotReversed(history) ==
  LET recentHistory == Slice(history, 0, historyLimit)
  IN  [k \in DOMAIN recentHistory |->
         <<Label(recentHistory[k].role), recentHistory[k].n>>]

\* buildPromptWithContext: history.slice(0, 10).reverse().forEach(...)
HistoryBlock(history) ==
  LET recentHistory == ReverseSeq(Slice(history, 0, historyLimit))
  IN  [k \in DOMAIN recentHistory |->
         <<Label(recentHistory[k].role), recentHistory[k].n>>]

InitTurns ==
  /\ ChunkIdle
  /\ CrawlIdle
  /\ OrchIdle
  /\ GenIdle
  /\ StIdle
  /\ ChatIdle
  /\ DocIdle
  /\ TextIdle
  /\ WriterIdle
  /\ ExecIdle
  /\ tnPc = [c \in TurnCalls |-> "idle"]
  /\ tnCall \in [TurnCalls -> {[query |-> q, response |-> <<>>] : q \in TurnQueries}]
  /\ tnRecords = {}
  /\ tnBase \in TurnBases
  /\ tnList = EarlierTurns(tnBase)
  /\ tnHistory = [c \in TurnCalls |-> <<>>]
  /\ tnPrompt = [c \in TurnCalls |-> <<>>]
  /\ tnOverlap = FALSE

TurnActive(c) == tnPc[c] \notin {"idle", "done", "failed"}

\* a rejected request is thrown to the handler's catch, which returns 500
AfterRequest(c, ok, next) == tnPc' = [tnPc EXCEPT ![c] = IF ok THEN next ELSE "failed"]

\* getRedisClient and redis.lrange(key, 0, -1)
TnRead(c, ok) ==
  /\ tnPc[c] = "idle"
  /\ AfterRequest(c, ok, "prompt")
  /\ tnHistory' = [tnHistory EXCEPT ![c] = IF ok THEN tnList ELSE @]
  /\ tnOverlap' = (tnOverlap \/ \E d \in TurnCalls \ {c} : TurnActive(d))
  /\ UNCHANGED <<tnCall, tnRecords, tnList, tnBase, tnPrompt>>
  /\ UNCHANGED turnRest

\* searchRelevantContent, buildPromptWithContext and generateResponse, which
\* answers with an apology when the model fails
TnBuildPrompt(c, response) ==
  /\ tnPc[c] = "prompt"
  /\ tnPrompt' = [tnPrompt EXCEPT ![c] = HistoryBlock(tnHistory[c])]
  /\ tnCall' = [tnCall EXCEPT ![c].response = response]
  /\ tnPc' = [tnPc EXCEPT ![c] = "pushUser"]
  /\ UNCHANGED <<tnRecords, tnList, tnBase, tnHistory, tnOverlap>>
  /\ UNCHANGED turnRest

\* redis.lpush of the user turn
TnPushUser(c, ok) ==
  /\ tnPc[c] = "pushUser"
  /\ AfterRequest(c, ok, "pushAssistant")
  /\ tnList' = IF ok THEN LPushTurn(tnList, "user", c) ELSE tnList
  /\ UNCHANGED <<tnCall, tnRecords, tnBase, tnHistory, tnPrompt, tnOverlap>>
  /\ UNCHANGED turnRest

\* redis.lpush of the assistant turn
TnPushAssistant(c, ok) ==
  /\ tnPc[c] = "pushAssistant"
  /\ AfterRequest(c, ok, "expire")
  /\ tnList' = IF ok THEN LPushTurn(tnList, "assistant", c) ELSE tnList
  /\ UNCHANGED <<tnCall, tnRecords, tnBase, tnHistory, tnPrompt, tnOverlap>>
  /\ UNCHANGED turnRest

\* redis.expire
TnExpire(c, ok) ==
  /\ tnPc[c] = "expire"
  /\ AfterRequest(c, ok, "record")
  /\ UNCHANGED <<tnCall, tnRecords, tnList, tnBase, tnHistory, tnPrompt, tnOverlap>>
  /\ UNCHANGED turnRest

\* the Item of recordQuery (id, timestamp and date left out)
QueryItem(tenantId, chatbotId, sessionId, query, response) ==
  [tenantId |-> tenantId, chatbotId |-> chatbotId, sessionId |-> sessionId,
   query |-> query, responseLength |-> Len(response)]

\* recordQuery, which swallows the failure of its put, and the return
TnRecord(c, ok) ==
  /\ tnPc[c] = "record"
  /\ tnRecords' = IF ok
                  THEN tnRecords \cup {QueryItem("t1", "bot", "s1", tnCall[c].query,
                                                 tnCall[c].response)}
                  ELSE tnRecords
  /\ tnPc' = [tnPc EXCEPT ![c] = "done"]
  /\ UNCHANGED <<tnCall, tnList, tnBase, tnHistory, tnPrompt, tnOverlap>>
  /\ UNCHANGED turnRest

\* the steps of a call after its first request
TurnSteps ==
  \/ \E c \in TurnCalls, response \in TurnResponses : TnBuildPrompt(c, response)
  \/ \E c \in TurnCalls, ok \in BOOLEAN : TnPushUser(c, ok)
  \/ \E c \in TurnCalls, ok \in BOOLEAN : TnPushAssistant(c, ok)
  \/ \E c \in TurnCalls, ok \in BOOLEAN : TnExpire(c, ok)
  \/ \E c \in TurnCalls, ok \in BOOLEAN : TnRecord(c, ok)

NextTurns ==
  \/ \E c \in TurnCalls, ok \in BOOLEAN : TnRead(c, ok)
  \/ TurnSteps

\* a call starts when no other call is under way
NextTurnsSeq ==
  \/ \E c \in TurnCalls, ok \in BOOLEAN :
       (\A d \in TurnCalls : ~TurnActive(d)) /\ TnRead(c, ok)
  \/ TurnSteps

SpecTurns == InitTurns /\ [][NextTurns]_vars

SpecTurnsSeq == InitTurns /\ [][NextTurnsSeq]_vars

\* the lines expected for a session read as `history`: its last
\* min(historyLimit, n) turns in the order of writing, labeled by role
RoleOfTurn(history, j) ==
  (CHOOSE t \in Range(history) : t.n = j).role

ExpectedBlock(history) ==
  LET n == Len(history)
      m == Min(historyLimit, n)
  IN  [k \in 1..m |-> <<Label(RoleOfTurn(history, n - m + k)), n - m + k>>]

\* C34: the history block of a call's prompt lists the last min(10, n) turns
\* of the session of n turns the call read, oldest first, each labeled by
\* its role.
C34_PromptHoldsLastTenTurns ==
  \A c \in DOMAIN tnPc :
    tnPc[c] \in {"pushUser", "pushAssistant", "expire", "record", "done"}
      => tnPrompt[c] = ExpectedBlock(tnHistory[c])

\* a call read a session of more than ten turns, two of them written by the
\* call before it, and its prompt holds ten lines
C34_Witness ==
  \E c \in DOMAIN tnPc :
    /\ tnPc[c] = "done"
    /\ Len(tnHistory[c]) > historyLimit
    /\ \E k \in DOMAIN tnHistory[c] : tnHistory[c][k].call \notin {0, c}
    /\ Len(tnPrompt[c]) = historyLimit

\* the turn written as the j-th of the session
TurnAt(j) == tnList[Len(tnList) - j + 1]

TurnCallsEnded == {c \in DOMAIN tnPc : tnPc[c] \in {"done", "failed"}}

\* the turns written since the start are k pairs, each the user turn and
\* then the assistant turn of one call
HoldsPairs(k) ==
  /\ Len(tnList) = tnBase + 2 * k
  /\ \A i \in 1..k :
       /\ TurnAt(tnBase + 2 * i - 1).role = "user"
       /\ TurnAt(tnBase + 2 * i).role = "assistant"
       /\ TurnAt(tnBase + 2 * i - 1).call = TurnAt(tnBase + 2 * i).call

\* while every request of every call succeeds, the calls made one after the
\* other leave one pair of turns each
PairsWhileNoRequestFails ==
  (\A c \in DOMAIN tnPc : tnPc[c] \in {"idle", "done"})
    => HoldsPairs(Cardinality(TurnCallsEnded))

\* C35: calls on one session that do not overlap append two turns each, the
\* user turn and then the assistant turn: when no call is under way the
\* turns written since the start are pairs, one for each call that wrote
\* (a call that failed before its first write counting for none), so that
\* user and assistant turns alternate.
C35_TwoTurnsPerCall ==
  (\A c \in DOMAIN tnPc : ~TurnActive(c))
    => \E k \in 0..Cardinality(TurnCallsEnded) : HoldsPairs(k)

\* C36: whatever the interleaving of two calls on the session, when both
\* have returned their response no turn is lost and each call's user turn
\* is directly followed by that call's assistant turn.
C36_NoInterleavedCorruption ==
  (\A c \in DOMAIN tnPc : tnPc[c] = "done")
    => HoldsPairs(Cardinality(DOMAIN tnPc))


\* C37: every analytics item holds the length of the query and does not
\* hold the query.
C37_RecordHoldsLengthNotQuery ==
  \A item \in tnRecords :
    /\ "query" \notin DOMAIN item
    /\ "queryLength" \in DOMAIN item

(***************************************************************************)
(* The error records of an execution (Spec).                               *)
(***************************************************************************)
\* C38: every error item put for a failed source stage or tenant-level
\* step holds the tenantId of the execution.
C38_ErrorRecordsCarryTenant ==
  \A rec \in errorRecords :
    rec.errorType \in SourceErrorStates \cup TenantErrorStates
      => rec.tenantId = event.tenantId


(***************************************************************************)
(* executeWorkflow of workflow_api.js (SpecExecute).  An object is a       *)
(* function from its property names to values.                             *)
(***************************************************************************)
ExecTenants == {"t1", "t2"}

\* the workflow's RAG nodes give these
WorkflowSources == "sources of the workflow"
WorkflowConfig == "config of the workflow"

\* the request bodies: none, no JSON, and objects with and without the
\* properties of the input
NoObject == <<>>

Body(kind, props) == [kind |-> kind, props |-> props]

ExecBodies ==
  {Body("null", NoObject), Body("invalid", NoObject), Body("object", NoObject)}
  \cup {Body("object", [p \in {"note"} |-> "x"])}
  \cup {Body("object", [p \in {"tenantId"} |-> t]) : t \in ExecTenants}
  \cup {Body("object", [p \in {"tenantId", "dataSources"} |->
                          IF p = "tenantId" THEN t ELSE "sources of the body"]) :
          t \in ExecTenants}
  \cup {Body("object", [p \in {"config"} |-> "config of the body"])}

\* { ...a, ...b }: the properties of b replace those of a
Spread(a, b) ==
  [p \in DOMAIN a \cup DOMAIN b |-> IF p \in DOMAIN b THEN b[p] ELSE a[p]]

\* JSON.parse(body) || {}
ExecutionData(body) == IF body.kind = "null" THEN NoObject ELSE body.props

\* stepFunctionsInput = { tenantId, workflowId, dataSources, config,
\* ...executionData }
StepFunctionsInput(tenantId, workflowId, body) ==
  Spread([p \in {"tenantId", "workflowId", "dataSources", "config"} |->
            CASE p = "tenantId" -> tenantId
              [] p = "workflowId" -> workflowId
              [] p = "dataSources" -> WorkflowSources
              [] OTHER -> WorkflowConfig],
         ExecutionData(body))

InitExecute ==
  /\ ChunkIdle
  /\ CrawlIdle
  /\ OrchIdle
  /\ GenIdle
  /\ StIdle
  /\ ChatIdle
  /\ DocIdle
  /\ TextIdle
  /\ WriterIdle
  /\ TurnIdle
  /\ exPc = "get"
  /\ exCaller \in ExecTenants
  /\ exBody \in ExecBodies
  /\ exInput = <<>>
  /\ exStatus = 0

ExUnchanged == UNCHANGED <<exCaller, exBody>> /\ UNCHANGED execRest

\* dynamoDB.get of the workflow under the caller's tenantId, and the filter
\* of its RAG nodes
ExGet(answer) ==
  /\ exPc = "get"
  /\ CASE answer = "error" -> exPc' = "thrown" /\ exStatus' = 0
       [] answer = "missing" -> exPc' = "done" /\ exStatus' = 404
       [] answer = "no RAG nodes" -> exPc' = "done" /\ exStatus' = 400
       [] OTHER -> exPc' = "build" /\ exStatus' = 0
  /\ UNCHANGED exInput
  /\ ExUnchanged

\* JSON.parse(body), which throws on a text that is no JSON, and the input
ExBuild ==
  /\ exPc = "build"
  /\ IF exBody.kind = "invalid"
     THEN exPc' = "thrown" /\ UNCHANGED exInput
     ELSE /\ exPc' = "start"
          /\ exInput' = StepFunctionsInput(exCaller, "w1", exBody)
  /\ UNCHANGED exStatus
  /\ ExUnchanged

\* stepFunctions.startExecution with the input
ExStart(ok) ==
  /\ exPc = "start"
  /\ IF ok THEN exPc' = "record" /\ UNCHANGED exInput
     ELSE exPc' = "thrown" /\ exInput' = <<>>
  /\ UNCHANGED exStatus
  /\ ExUnchanged

\* dynamoDB.put of the execution item, and the response
ExRecord(ok) ==
  /\ exPc = "record"
  /\ IF ok THEN exPc' = "done" /\ exStatus' = 200
     ELSE exPc' = "thrown" /\ UNCHANGED exStatus
  /\ UNCHANGED exInput
  /\ ExUnchanged

NextExecute ==
  \/ \E answer \in {"error", "missing", "no RAG nodes", "found"} : ExGet(answer)
  \/ ExBuild
  \/ \E ok \in BOOLEAN : ExStart(ok)
  \/ \E ok \in BOOLEAN : ExRecord(ok)

SpecExecute == InitExecute /\ [][NextExecute]_vars

\* C39: the tenantId in the input of an execution that was started is the
\* tenantId of the authenticated caller, whatever the request body holds.
C39_InputTenantIsCaller ==
  (exPc \in {"record", "done"} /\ "tenantId" \in DOMAIN exInput)
    => exInput["tenantId"] = exCaller

====
